---- MODULE Spec2Model ----
(***************************************************************************)
(* A model of the coordination subsystem of the A2A code review system:    *)
(* the capability matcher and the agent registry (src/registry), the task  *)
(* distributor and the coordinator's analyze_code pipeline                 *)
(* (src/agents/coordinator) and the client-side response table             *)
(* (src/agents/base/client_agent.py).                                      *)
(*                                                                         *)
(* The program runs on one asyncio event loop: a coroutine runs until it   *)
(* awaits network I/O.  Each action below is one such uninterrupted run;   *)
(* pc values "dist" and "collect" are positions inside a run, and no other *)
(* action is enabled while a request is at one of them.                    *)
(***************************************************************************)
EXTENDS Integers, Sequences, FiniteSets, TLC

VARIABLES
    agents,             \* AgentRegistry.agents: agent_id -> AgentInfo
    agent_status,       \* AgentRegistry.agent_status: agent_id -> runtime state
    m_agents,           \* CapabilityMatcher.agents: agent_id -> AgentInfo
    capability_index,   \* CapabilityMatcher.capability_index: name -> set of agent ids
    all_capabilities,   \* CapabilityMatcher.all_capabilities
    probes,             \* agent ids with a registry health probe awaiting its HTTP response
    pending_responses,  \* ClientAgent.pending_responses: task id -> response
    pc,                 \* per analyze_code request: position of the coroutine
    code,               \* per request: the code argument
    idx,                \* per request: position in analysis_config of the entry being dispatched
    best,               \* per request: best_agent of the entry whose probe is awaited
    distributed,        \* per request: distributed_tasks (analysis type -> task id)
    single_ret,         \* per request: analysis type -> what _distribute_single_task returned
    assigned,           \* per request: analysis type -> the worker the task was counted on
    results,            \* per request: the dict handed to aggregate_results
    report,             \* per request: the value analyze_code returned
    now,                \* the clock read by datetime.utcnow()
    mon_pc,             \* position of the health_monitor task ("off": no task)
    round_ids,          \* ids whose check_agent_health the current round gathers
    round_log,          \* the probes of the current round in completion order
    mon_orphans,        \* health_monitor tasks that health_check_task no longer refers to
    max_retries,        \* A2ATransport.max_retries
    t_pc,               \* per send_message call: position of the coroutine
    t_attempt,          \* per call: the loop variable attempt
    t_log,              \* per call: what each attempt so far ended with
    t_result,           \* per call: what send_message returned or raised
    sem_value,          \* batch_send: the semaphore's counter
    sem_waiters,        \* batch_send: the calls waiting for the semaphore, in order
    batch_pc,           \* position of the batch_send coroutine
    batch_n,            \* batch_send: len(requests)
    batch_max_concurrent, \* batch_send: its max_concurrent argument
    batch_results,      \* what batch_send returned
    ag_results,         \* aggregate_results: its argument results
    ag_out,             \* aggregate_results: the dict it returned
    ag_again,           \* aggregate_results: the dict a second run on the same argument returned
    execution_strategy, \* OrchestrationEngine.execution_strategy
    or_id,              \* apply_orchestration_rules: its argument analysis_id
    or_out,             \* apply_orchestration_rules: what it returned
    or_again,           \* what it returned when called on that return value
    own_tasks,          \* BaseAgent.active_tasks of the coordinator: task id -> status
    sending,            \* the task ids whose send_task_to_agent awaits the response
    cancelling,         \* task ids whose cancel_remote_task awaits the answer of the worker
    sv_tasks,           \* AgentServer.active_tasks: task id -> status and event flag
    sv_pc,              \* per /events client: position of its event_generator
    sv_frames,          \* per /events client: task id -> task frames received
    sv_seen,            \* per /events client: tasks that ended while it was connected
    sv_time,            \* time.time() of the server, in seconds
    sv_last_heartbeat,  \* AgentServer._last_heartbeat
    sv_beat,            \* per /events client: when it connected or last received a heartbeat
    lastOp              \* the last operation performed and what it returned

regVars == <<agents, agent_status, m_agents, capability_index, all_capabilities>>
reqVars == <<pc, code, idx, best, distributed, single_ret, assigned, results, report>>
monVars == <<mon_pc, round_ids, round_log, mon_orphans>>
\* the state of the components that the registry operations and analyze_code
\* leave alone
trVars == <<max_retries, t_pc, t_attempt, t_log, t_result, sem_value, sem_waiters,
           batch_pc, batch_n, batch_max_concurrent, batch_results>>
agVars == <<ag_results, ag_out, ag_again>>
orVars == <<execution_strategy, or_id, or_out, or_again>>
svVars == <<sv_tasks, sv_pc, sv_frames, sv_seen, sv_time, sv_last_heartbeat, sv_beat>>
\* the client, and the worker server it talks to
clVars == <<own_tasks, sending, cancelling, svVars>>
restVars == <<monVars, trVars, agVars, orVars, clVars>>
vars == <<agents, agent_status, m_agents, capability_index, all_capabilities, probes,
          pending_responses, pc, code, idx, best, distributed, single_ret,
          assigned, results, report, now, mon_pc, round_ids, round_log, mon_orphans,
          max_retries, t_pc, t_attempt, t_log, t_result, sem_value, sem_waiters,
          batch_pc, batch_n, batch_max_concurrent, batch_results, ag_results, ag_out, ag_again,
          execution_strategy, or_id, or_out, or_again, own_tasks, sending, cancelling,
          sv_tasks, sv_pc, sv_frames, sv_seen, sv_time, sv_last_heartbeat, sv_beat, lastOp>>

-----------------------------------------------------------------------------
(* Bounds of the model *)

AgentIds == {"a1", "a2"}

\* IncrementTaskCount as a free registry operation stops at this total
MaxTasks == 2


None == "None"

EmptyMap == [x \in {} |-> 0]

\* _distribute_single_task returning None
NoTaskId == <<None, 0>>

\* analyze_code has not returned
NoReport == [returned |-> FALSE]

Put(f, k, v) == [x \in (DOMAIN f) \cup {k} |-> IF x = k THEN v ELSE f[x]]

Drop(f, k) == [x \in (DOMAIN f) \ {k} |-> f[x]]

-----------------------------------------------------------------------------
(* The analysis catalog of the coordinator *)

SyntaxCaps == {"syntax_check", "linting", "style_validation"}

SecurityCaps == {"vulnerability_scan", "sql_injection_check", "xss_detection"}

PerformanceCaps == {"complexity_analysis", "optimization_suggestions", "memory_analysis"}

DocumentationCaps == {"docstring_validation", "comment_analysis", "readability_assessment"}

TestCoverageCaps == {"coverage_analysis", "test_quality_assessment", "missing_test_suggestions"}

\* analysis_config, in the insertion order of the dict
analysis_config ==
    << [analysis_type |-> "syntax_check", capabilities |-> SyntaxCaps, priority |-> 1],
       [analysis_type |-> "security_scan", capabilities |-> SecurityCaps, priority |-> 2],
       [analysis_type |-> "performance_analysis", capabilities |-> PerformanceCaps, priority |-> 3],
       [analysis_type |-> "documentation_check", capabilities |-> DocumentationCaps, priority |-> 4],
       [analysis_type |-> "test_coverage", capabilities |-> TestCoverageCaps, priority |-> 5] >>

AllCaps == UNION {analysis_config[i].capabilities : i \in DOMAIN analysis_config}

-----------------------------------------------------------------------------
(* Inputs *)

\* AgentInfo: the fields the registry and the matcher read.  capabilities is the
\* set of capability names, parameters the number of declared parameters over
\* all capabilities, health_check_endpoint whether one is declared.
Descriptors ==
    { [capabilities |-> SyntaxCaps, status |-> "active",
       health_check_endpoint |-> TRUE, parameters |-> 0],
      [capabilities |-> SecurityCaps, status |-> "active",
       health_check_endpoint |-> FALSE, parameters |-> 1],
      [capabilities |-> AllCaps, status |-> "maintenance",
       health_check_endpoint |-> TRUE, parameters |-> 0] }

\* the descriptors registered where health checks and task counts are exercised
RuntimeDescriptors == {d \in Descriptors : d.capabilities # AllCaps}

\* required_capabilities of a find_best_agent query
Queries == {SyntaxCaps, SecurityCaps, {"syntax_check", "linting"}}

\* what the health endpoint does: an HTTP status, or a transport exception
ProbeOutcomes == {"200", "500", "exception"}

-----------------------------------------------------------------------------
(* CapabilityMatcher *)

IndexGet(index, c) == IF c \in DOMAIN index THEN index[c] ELSE {}

\* add_agent: the loop over agent_info.capabilities
AddAgentIndex(index, a, d) ==
    [c \in (DOMAIN index) \cup d.capabilities |->
        IF c \in d.capabilities THEN IndexGet(index, c) \cup {a} ELSE index[c]]

\* remove_agent: the loop over the capabilities of the stored AgentInfo
RemoveAgentIndex(index, a, caps) ==
    [c \in {k \in DOMAIN index : ~(k \in caps /\ index[k] \ {a} = {})} |->
        IF c \in caps THEN index[c] \ {a} ELSE index[c]]

RemoveAgentAllCaps(all, index, a, caps) ==
    all \ {c \in caps : IndexGet(index, c) \ {a} = {}}

\* find_agents_by_capabilities: ids of the agents returned
FindAgentsByCapabilities(req) ==
    IF req = {} THEN {}
    ELSE {a \in AgentIds : /\ \A c \in req : a \in IndexGet(capability_index, c)
                           /\ a \in DOMAIN m_agents}

\* _calculate_agent_score, times 10
StatusBonus(status) ==
    IF status = "active" THEN 50 ELSE IF status = "maintenance" THEN 10 ELSE 0

CalculateAgentScore(d, req) ==
      100 * Cardinality(req \cap d.capabilities)
    + 20 * Cardinality(d.capabilities \ req)
    + StatusBonus(d.status)
    + d.parameters

\* find_best_agent: the agents it may return (the first of the highest score in
\* the iteration order of a set of strings, which the language leaves open);
\* empty when it returns None
FindBestAgent(req) ==
    LET cand == FindAgentsByCapabilities(req) IN
    {a \in cand : \A b \in cand :
        CalculateAgentScore(m_agents[a], req) >= CalculateAgentScore(m_agents[b], req)}

BestOrNone(req) == IF FindBestAgent(req) = {} THEN {None} ELSE FindBestAgent(req)

-----------------------------------------------------------------------------
(* AgentRegistry *)

\* register_agent: the runtime state written for the id
InitialStatus(d) ==
    [status |-> d.status, last_health_check |-> None, health_status |-> "unknown",
     active_tasks |-> 0, total_tasks |-> 0, response_time |-> None]

RegisterStatus(status, a, d) == Put(status, a, InitialStatus(d))

\* the registry after register_agent(a, d)
Registered(reg, a, d) ==
    [agents |-> Put(reg.agents, a, d),
     agent_status |-> RegisterStatus(reg.agent_status, a, d),
     m_agents |-> Put(reg.m_agents, a, d),
     capability_index |-> AddAgentIndex(reg.capability_index, a, d),
     all_capabilities |-> reg.all_capabilities \cup d.capabilities]

Registry ==
    [agents |-> agents, agent_status |-> agent_status, m_agents |-> m_agents,
     capability_index |-> capability_index, all_capabilities |-> all_capabilities]

SetRegistry(reg) ==
    /\ agents' = reg.agents
    /\ agent_status' = reg.agent_status
    /\ m_agents' = reg.m_agents
    /\ capability_index' = reg.capability_index
    /\ all_capabilities' = reg.all_capabilities

RegisterAgent(a, d) ==
    /\ SetRegistry(Registered(Registry, a, d))
    /\ lastOp' = [op |-> "register", id |-> a, existed |-> a \in DOMAIN agents, ret |-> TRUE]

UnregisterAgent(a) ==
    /\ IF a \notin DOMAIN agents
       THEN UNCHANGED regVars
       ELSE /\ agents' = Drop(agents, a)
            /\ agent_status' = Drop(agent_status, a)
            /\ IF a \notin DOMAIN m_agents
               THEN UNCHANGED <<m_agents, capability_index, all_capabilities>>
               ELSE /\ capability_index' =
                          RemoveAgentIndex(capability_index, a, m_agents[a].capabilities)
                    /\ all_capabilities' =
                          RemoveAgentAllCaps(all_capabilities, capability_index, a,
                                             m_agents[a].capabilities)
                    /\ m_agents' = Drop(m_agents, a)
    /\ lastOp' = [op |-> "unregister", id |-> a, ret |-> a \in DOMAIN agents]

\* a contaminating write: a failed probe marks every worker unhealthy
RecordHealthContaminating(status, a, outcome) ==
    IF outcome = "200" THEN
        IF a \notin DOMAIN status THEN status
        ELSE [status EXCEPT ![a].last_health_check = "set",
                            ![a].health_status = "healthy",
                            ![a].response_time = "set"]
    ELSE [x \in DOMAIN status |->
            [status[x] EXCEPT !.last_health_check = "set", !.health_status = "unhealthy"]]

\* a write without the membership test: the probe of a worker that is gone
\* creates its runtime state anew
RecordHealthUnguarded(status, a, outcome) ==
    Put(status, a,
        [status |-> "active", last_health_check |-> "set",
         health_status |-> IF outcome = "200" THEN "healthy" ELSE "unhealthy",
         active_tasks |-> IF a \in DOMAIN status THEN status[a].active_tasks ELSE 0,
         total_tasks |-> IF a \in DOMAIN status THEN status[a].total_tasks ELSE 0,
         response_time |-> IF outcome = "exception" THEN None ELSE "set"])

\* check_agent_health: the write to agent_status after the probe
RecordHealth(status, a, outcome) ==
    IF a \notin DOMAIN status THEN status
    ELSE [status EXCEPT
            ![a].last_health_check = "set",
            ![a].health_status = IF outcome = "200" THEN "healthy" ELSE "unhealthy",
            ![a].response_time = IF outcome = "exception" THEN None ELSE "set"]

\* check_agent_health up to the await: False at once without an agent or endpoint
HasHealthEndpoint(a) == a \in DOMAIN agents /\ agents[a].health_check_endpoint

IncrementTaskCount(status, a) ==
    IF a \notin DOMAIN status THEN status
    ELSE [status EXCEPT ![a].active_tasks = @ + 1, ![a].total_tasks = @ + 1]

\* a decrement without the floor at 0
DecrementTaskCountNoFloor(status, a) ==
    IF a \notin DOMAIN status THEN status
    ELSE [status EXCEPT ![a].active_tasks = @ - 1]

DecrementTaskCount(status, a) ==
    IF a \notin DOMAIN status THEN status
    ELSE [status EXCEPT ![a].active_tasks = IF @ - 1 > 0 THEN @ - 1 ELSE 0]

-----------------------------------------------------------------------------
(* Requests *)

\* the analyze_code coroutines that may exist at a time
Reqs == {1, 2}

\* the coroutines of a coordinator that serves one request at a time
SeqReqs == {1}

\* the clients of the /events stream of a worker server
StreamClients == {"c1", "c2"}

\* the task ids a worker server is sent
ServerTasks == {"t1", "t2"}

\* AgentServer.__init__: no task, no stream, the heartbeat stamp at the clock
NoServer ==
    /\ sv_tasks = EmptyMap
    /\ sv_pc = [c \in StreamClients |-> [at |-> "off", task |-> None]]
    /\ sv_frames = [c \in StreamClients |-> [t \in ServerTasks |-> 0]]
    /\ sv_seen = [c \in StreamClients |-> {}]
    /\ sv_time = 0
    /\ sv_last_heartbeat = 0
    /\ sv_beat = [c \in StreamClients |-> 0]

\* BaseAgent.__init__: no task created
NoTasks ==
    /\ own_tasks = EmptyMap
    /\ sending = {}
    /\ cancelling = {}
    /\ NoServer

\* no analyze_code call is under way
NoCoroutines ==
    /\ pc = [r \in Reqs |-> "idle"]
    /\ code = [r \in Reqs |-> None]
    /\ idx = [r \in Reqs |-> 0]
    /\ best = [r \in Reqs |-> None]
    /\ distributed = [r \in Reqs |-> EmptyMap]
    /\ single_ret = [r \in Reqs |-> EmptyMap]
    /\ assigned = [r \in Reqs |-> EmptyMap]
    /\ results = [r \in Reqs |-> EmptyMap]
    /\ report = [r \in Reqs |-> NoReport]

NoRequests == NoTasks /\ NoCoroutines

\* no health_monitor task: health_check_task is None
NoMonitor ==
    /\ mon_pc = "off"
    /\ round_ids = {}
    /\ round_log = << >>
    /\ mon_orphans = 0

\* the most send_message calls in progress at a time (the size of a batch)
BatchSize == 3

\* the largest max_concurrent argument given to batch_send
MaxConcurrentLimit == 2

\* A2ATransport.__init__: the default of max_retries
DefaultMaxRetries == 3

\* the max_retries arguments a transport is built with
RetryChoices == {0, 1, DefaultMaxRetries}

Sends == 1..BatchSize

\* A2ATransport.__init__, with nothing sent yet
NoTransport(mr) ==
    /\ max_retries = mr
    /\ t_pc = [i \in Sends |-> "new"]
    /\ t_attempt = [i \in Sends |-> 0]
    /\ t_log = [i \in Sends |-> << >>]
    /\ t_result = [i \in Sends |-> [kind |-> "none"]]
    /\ sem_value = 0
    /\ sem_waiters = << >>
    /\ batch_pc = "idle"
    /\ batch_n = 0
    /\ batch_max_concurrent = 0
    /\ batch_results = << >>

\* aggregate_results has not been called
NoOutput == [computed |-> FALSE]

\* apply_orchestration_rules has not been called
NotReturned == [returned |-> FALSE]

NoOrchestration ==
    /\ execution_strategy = "parallel"
    /\ or_id = None
    /\ or_out = NotReturned
    /\ or_again = NotReturned

NoAggregation ==
    /\ ag_results = EmptyMap
    /\ ag_out = NoOutput
    /\ ag_again = NoOutput
    /\ NoOrchestration

\* no coroutine is in the middle of an uninterrupted run
NoneRunning == \A r \in Reqs : pc[r] \in {"idle", "probe"}

\* AgentRegistry.__init__ and CapabilityMatcher.__init__, with a configuration
\* that lists no agent, and ClientAgent.__init__
NoAgents ==
    /\ agents = EmptyMap
    /\ agent_status = EmptyMap
    /\ m_agents = EmptyMap
    /\ capability_index = EmptyMap
    /\ all_capabilities = {}
    /\ probes = {}
    /\ pending_responses = EmptyMap
    /\ NoRequests
    /\ NoMonitor
    /\ now = 0
    /\ lastOp = [op |-> "init"]

Init == NoAgents /\ NoTransport(DefaultMaxRetries) /\ NoAggregation

\* the same, with a transport built with any of the max_retries arguments
InitTransport == NoAgents /\ NoAggregation /\ \E mr \in RetryChoices : NoTransport(mr)

-----------------------------------------------------------------------------
(* The operations of the registry, called in any order *)

Register(a, d) ==
    /\ NoneRunning
    /\ RegisterAgent(a, d)
    /\ UNCHANGED <<probes, pending_responses, reqVars, now, restVars>>

Unregister(a) ==
    /\ NoneRunning
    /\ UnregisterAgent(a)
    /\ UNCHANGED <<probes, pending_responses, reqVars, now, restVars>>

FindBest(req) ==
    /\ NoneRunning
    /\ \E b \in BestOrNone(req) : lastOp' = [op |-> "find_best", req |-> req, ret |-> b]
    /\ UNCHANGED <<regVars, probes, pending_responses, reqVars, now, restVars>>

\* check_agent_health up to its await (or to its early return)
CheckHealthStart(a) ==
    /\ NoneRunning
    /\ a \notin probes
    /\ IF HasHealthEndpoint(a)
       THEN /\ probes' = probes \cup {a}
            /\ lastOp' = [op |-> "probe_sent"]
       ELSE /\ probes' = probes
            /\ lastOp' = [op |-> "check_health", id |-> a, outcome |-> None, ret |-> FALSE]
    /\ UNCHANGED <<regVars, pending_responses, reqVars, now, restVars>>

\* check_agent_health from the response (or the exception) on
CheckHealthFinish(a, outcome) ==
    /\ NoneRunning
    /\ a \in probes
    /\ probes' = probes \ {a}
    /\ agent_status' = RecordHealth(agent_status, a, outcome)
    /\ lastOp' = [op |-> "check_health", id |-> a, outcome |-> outcome, ret |-> outcome = "200"]
    /\ UNCHANGED <<agents, m_agents, capability_index, all_capabilities,
                   pending_responses, reqVars, now, restVars>>

IncrementOp(a) ==
    /\ NoneRunning
    /\ a \in DOMAIN agent_status => agent_status[a].total_tasks < MaxTasks
    /\ agent_status' = IncrementTaskCount(agent_status, a)
    /\ lastOp' = [op |-> "increment"]
    /\ UNCHANGED <<agents, m_agents, capability_index, all_capabilities, probes,
                   pending_responses, reqVars, now, restVars>>

DecrementOp(a) ==
    /\ NoneRunning
    /\ agent_status' = DecrementTaskCount(agent_status, a)
    /\ lastOp' = [op |-> "decrement", id |-> a,
                  was |-> IF a \in DOMAIN agent_status THEN agent_status[a].active_tasks ELSE 0]
    /\ UNCHANGED <<agents, m_agents, capability_index, all_capabilities, probes,
                   pending_responses, reqVars, now, restVars>>

\* update_agent_status: only the status field of the runtime state is written
UpdateAgentStatus(status, a, value) ==
    IF a \notin DOMAIN status THEN status
    ELSE [status EXCEPT ![a].status = value]

UpdateAgentStatusOp(a, value) ==
    /\ NoneRunning
    /\ agent_status' = UpdateAgentStatus(agent_status, a, value)
    /\ lastOp' = [op |-> "update_status", id |-> a, status |-> value]
    /\ UNCHANGED <<agents, m_agents, capability_index, all_capabilities, probes,
                   pending_responses, reqVars, now, restVars>>

\* the values of the status argument of update_agent_status
AgentStatuses == {"active", "inactive", "maintenance"}

\* descriptors that differ in nothing but the declared status
StatusDescriptors ==
    { [capabilities |-> SyntaxCaps, status |-> s,
       health_check_endpoint |-> TRUE, parameters |-> 0] : s \in {"active", "maintenance"} }

\* registration, removal, status updates and best-agent queries
NextStatus ==
    \/ \E a \in AgentIds, d \in StatusDescriptors : Register(a, d)
    \/ \E a \in AgentIds : Unregister(a)
    \/ \E a \in AgentIds, value \in AgentStatuses : UpdateAgentStatusOp(a, value)
    \/ \E req \in Queries : FindBest(req)

SpecStatus == Init /\ [][NextStatus]_vars

\* the descriptors whose health check reaches its await
ProbedDescriptors == {d \in RuntimeDescriptors : d.health_check_endpoint}

\* every operation that writes the registry, its health probes included
NextIds ==
    \/ \E a \in AgentIds, d \in ProbedDescriptors : Register(a, d)
    \/ \E a \in AgentIds : Unregister(a)
    \/ \E a \in AgentIds : UpdateAgentStatusOp(a, "inactive")
    \/ \E a \in AgentIds : IncrementOp(a)
    \/ \E a \in AgentIds : DecrementOp(a)
    \/ \E a \in AgentIds : CheckHealthStart(a)
    \/ \E a \in AgentIds, outcome \in ProbeOutcomes : CheckHealthFinish(a, outcome)

SpecIds == Init /\ [][NextIds]_vars

\* registration, removal and best-agent queries
NextRegistry ==
    \/ \E a \in AgentIds, d \in Descriptors : Register(a, d)
    \/ \E a \in AgentIds : Unregister(a)
    \/ \E req \in Queries : FindBest(req)

SpecRegistry == Init /\ [][NextRegistry]_vars

\* registration, removal, health checks and task counting
NextRuntime ==
    \/ \E a \in AgentIds, d \in RuntimeDescriptors : Register(a, d)
    \/ \E a \in AgentIds : Unregister(a)
    \/ \E a \in AgentIds : CheckHealthStart(a)
    \/ \E a \in AgentIds, outcome \in ProbeOutcomes : CheckHealthFinish(a, outcome)
    \/ \E a \in AgentIds : IncrementOp(a)
    \/ \E a \in AgentIds : DecrementOp(a)

SpecRuntime == Init /\ [][NextRuntime]_vars

-----------------------------------------------------------------------------
(* TaskDistributor and CoordinatorAgent.analyze_code *)

\* the code argument of analyze_code
Codes == {"code_a", "code_b"}

\* getattr(best_agent, 'max_concurrent_tasks', 5): AgentInfo declares no such field
DefaultMaxConcurrentTasks == 5

MaxConcurrent(a) == DefaultMaxConcurrentTasks

AnalysisTypes == {analysis_config[i].analysis_type : i \in DOMAIN analysis_config}

\* a capacity check that lets one task too many through
AtCapacityStrict(active_tasks, max_concurrent) == active_tasks > max_concurrent

\* _distribute_single_task, the capacity check
AtCapacity(active_tasks, max_concurrent) == active_tasks >= max_concurrent

\* distribute_analysis_tasks, the body of its loop after the single dispatch
RecordDistributed(dist, analysis_type, task_id) ==
    IF task_id # NoTaskId THEN Put(dist, analysis_type, task_id) ELSE dist

\* a loop that gives up at the first entry that fails
AfterEntryStopOnFailure(i, task_id) ==
    IF i = Len(analysis_config) \/ task_id = NoTaskId THEN "collect" ELSE "dist"

\* distribute_analysis_tasks, the loop: the position after entry i
AfterEntry(i, task_id) == IF i = Len(analysis_config) THEN "collect" ELSE "dist"

\* the task id built by _distribute_single_task: the analysis type and the
\* clock reading, to the microsecond
TaskId(analysis_type) == <<analysis_type, now>>

\* get_task_result(task_id) as wait_for_completion uses it: the result, if the
\* response table holds a response with a result for the id
HasResult(task_id) ==
    /\ task_id \in DOMAIN pending_responses
    /\ pending_responses[task_id].response = "result"

\* a collection that takes every result the response table holds
WaitForCompletionOfAll(task_ids) ==
    [t \in {x \in DOMAIN pending_responses : pending_responses[x].response = "result"} |->
        [status |-> "completed", task_id |-> t]]

\* wait_for_completion: the dict of the results it collects. get_task_result
\* has no suspension point and does not wait: a task without a response in
\* the table at that moment is left out
WaitForCompletion(task_ids) ==
    [t \in {x \in task_ids : HasResult(x)} |-> [status |-> "completed", task_id |-> t]]

\* aggregate_results and apply_orchestration_rules, as far as analyze_code's
\* callers see the number of results
AggregatedReport(res, analysis_id) ==
    [returned |-> TRUE,
     total_agents |-> Cardinality(DOMAIN res),
     successful_agents |-> Cardinality({t \in DOMAIN res : res[t].status = "completed"}),
     orchestration |-> [analysis_id |-> analysis_id]]

\* a failure report that drops the code
FailureReportWithoutCode(c, analysis_id, e) ==
    [returned |-> TRUE,
     analysis_id |-> analysis_id,
     status |-> "failed",
     error |-> e,
     results |-> EmptyMap,
     summary |-> [total_observations |-> 0, total_errors |-> 1,
                  total_suggestions |-> 0, corrected_code |-> None]]

\* analyze_code, the dict built by its except clause
FailureReport(c, analysis_id, e) ==
    [returned |-> TRUE,
     analysis_id |-> analysis_id,
     status |-> "failed",
     error |-> e,
     results |-> EmptyMap,
     summary |-> [total_observations |-> 0, total_errors |-> 1,
                  total_suggestions |-> 0, corrected_code |-> c]]

\* analyze_code up to the first dispatch
AnalyzeStart(r, c) ==
    /\ NoneRunning
    /\ pc[r] = "idle"
    /\ pc' = [pc EXCEPT ![r] = "dist"]
    /\ code' = [code EXCEPT ![r] = c]
    /\ idx' = [idx EXCEPT ![r] = 1]
    /\ lastOp' = [op |-> "analyze_code", r |-> r]
    /\ UNCHANGED <<regVars, probes, pending_responses, best, distributed, single_ret,
                   assigned, results, report, now, restVars>>

\* _distribute_single_task up to the await of the health probe, or to its
\* return when no agent is found or check_agent_health returns at once
DispatchFind(r) ==
    LET entry == analysis_config[idx[r]] IN
    /\ pc[r] = "dist"
    /\ \E b \in BestOrNone(entry.capabilities) :
          IF b # None /\ HasHealthEndpoint(b)
          THEN /\ pc' = [pc EXCEPT ![r] = "probe"]
               /\ best' = [best EXCEPT ![r] = b]
               /\ lastOp' = [op |-> "probe_sent"]
               /\ UNCHANGED <<idx, single_ret>>
          ELSE /\ pc' = [pc EXCEPT ![r] = AfterEntry(idx[r], NoTaskId)]
               /\ idx' = [idx EXCEPT ![r] = @ + 1]
               /\ single_ret' = [single_ret EXCEPT ![r] = Put(@, entry.analysis_type, NoTaskId)]
               /\ lastOp' = [op |-> "dispatch", r |-> r, analysis_type |-> entry.analysis_type,
                             req |-> entry.capabilities, best |-> b, probe |-> None,
                             active |-> 0, ret |-> NoTaskId]
               /\ UNCHANGED best
    /\ UNCHANGED <<regVars, probes, pending_responses, code, distributed, assigned,
                   results, report, now, restVars>>

\* _distribute_single_task from the probe's response (or exception) on
DispatchAfterProbe(r, outcome) ==
    LET entry == analysis_config[idx[r]]
        b == best[r]
        st == RecordHealth(agent_status, b, outcome)
        active == IF b \in DOMAIN st THEN st[b].active_tasks ELSE 0
        ok == outcome = "200" /\ ~AtCapacity(active, MaxConcurrent(b))
        task_id == IF ok THEN TaskId(entry.analysis_type) ELSE NoTaskId
    IN
    /\ NoneRunning
    /\ pc[r] = "probe"
    /\ agent_status' = IF ok THEN IncrementTaskCount(st, b) ELSE st
    /\ distributed' = [distributed EXCEPT
                          ![r] = RecordDistributed(@, entry.analysis_type, task_id)]
    /\ single_ret' = [single_ret EXCEPT ![r] = Put(@, entry.analysis_type, task_id)]
    /\ assigned' = [assigned EXCEPT ![r] = IF ok THEN Put(@, entry.analysis_type, b) ELSE @]
    /\ pc' = [pc EXCEPT ![r] = AfterEntry(idx[r], task_id)]
    /\ idx' = [idx EXCEPT ![r] = @ + 1]
    /\ best' = [best EXCEPT ![r] = None]
    /\ lastOp' = [op |-> "dispatch", r |-> r, analysis_type |-> entry.analysis_type,
                  req |-> entry.capabilities, best |-> b, probe |-> outcome,
                  active |-> active, ret |-> task_id]
    /\ UNCHANGED <<agents, m_agents, capability_index, all_capabilities, probes,
                   pending_responses, code, results, report, now, restVars>>

\* analyze_code from the return of distribute_analysis_tasks to its own return
Collect(r) ==
    LET task_ids == {distributed[r][t] : t \in DOMAIN distributed[r]}
        res == WaitForCompletion(task_ids)
    IN
    /\ pc[r] = "collect"
    /\ pc' = [pc EXCEPT ![r] = "done"]
    /\ IF DOMAIN distributed[r] = {}
       THEN /\ report' = [report EXCEPT
                            ![r] = FailureReport(code[r], now, "No agents available for analysis")]
            /\ UNCHANGED <<results, pending_responses>>
       ELSE /\ results' = [results EXCEPT ![r] = res]
            /\ pending_responses' = [t \in (DOMAIN pending_responses) \ (DOMAIN res) |->
                                        pending_responses[t]]
            /\ report' = [report EXCEPT ![r] = AggregatedReport(res, now)]
    /\ lastOp' = [op |-> "analyze_code_returned", r |-> r]
    /\ UNCHANGED <<regVars, probes, code, idx, best, distributed, single_ret, assigned, now, restVars>>

\* the caller takes the report and the coroutine's frame is dropped
Return(r) ==
    /\ pc[r] = "done"
    /\ pc' = [pc EXCEPT ![r] = "idle"]
    /\ code' = [code EXCEPT ![r] = None]
    /\ idx' = [idx EXCEPT ![r] = 0]
    /\ distributed' = [distributed EXCEPT ![r] = EmptyMap]
    /\ single_ret' = [single_ret EXCEPT ![r] = EmptyMap]
    /\ assigned' = [assigned EXCEPT ![r] = EmptyMap]
    /\ results' = [results EXCEPT ![r] = EmptyMap]
    /\ report' = [report EXCEPT ![r] = NoReport]
    /\ lastOp' = [op |-> "return"]
    /\ UNCHANGED <<regVars, probes, pending_responses, best, now, restVars>>

\* send_task_to_agent files a response under a fresh uuid4 string, never of the
\* form the distributor builds
Uuid(n) == <<"uuid4", n>>

\* the response table when a request arrives: empty, or holding the error
\* response of an earlier analyze_specific_aspect call (get_task_result leaves
\* a response that carries an error in the table)
LeftoverResponses == {EmptyMap, [t \in {Uuid(1)} |-> [response |-> "error"]]}

\* the agents of a registry configuration file: agent_id -> AgentInfo, for
\* the ids it lists (each once)
Configs == UNION {[ids -> Descriptors] : ids \in SUBSET AgentIds}

EmptyRegistry ==
    [agents |-> EmptyMap, agent_status |-> EmptyMap, m_agents |-> EmptyMap,
     capability_index |-> EmptyMap, all_capabilities |-> {}]

\* _load_config: register_agent for each agent of the configuration
RECURSIVE LoadConfig(_, _, _)
LoadConfig(reg, config, ids) ==
    IF ids = {} THEN reg
    ELSE LET a == CHOOSE x \in ids : TRUE
         IN LoadConfig(Registered(reg, a, config[a]), config, ids \ {a})

\* a coordinator constructed on a registry loaded from its configuration file
InitLoaded ==
    /\ \E config \in Configs :
          LET reg == LoadConfig(EmptyRegistry, config, DOMAIN config) IN
          /\ agents = reg.agents
          /\ agent_status = reg.agent_status
          /\ m_agents = reg.m_agents
          /\ capability_index = reg.capability_index
          /\ all_capabilities = reg.all_capabilities
    /\ probes = {}
    /\ pending_responses \in LeftoverResponses
    /\ NoRequests
    /\ NoMonitor
    /\ NoAggregation
    /\ NoTransport(DefaultMaxRetries)
    /\ now = 0
    /\ lastOp = [op |-> "init"]

Next ==
    \/ \E a \in AgentIds : Unregister(a)
    \/ \E r \in SeqReqs, c \in Codes : AnalyzeStart(r, c)
    \/ \E r \in SeqReqs : DispatchFind(r)
    \/ \E r \in SeqReqs, outcome \in ProbeOutcomes : DispatchAfterProbe(r, outcome)
    \/ \E r \in SeqReqs : Collect(r)
    \/ \E r \in SeqReqs : Return(r)

Spec == InitLoaded /\ [][Next]_vars

-----------------------------------------------------------------------------
(* Health monitoring: check_all_agents_health and the health_monitor task *)

\* how the synchronous part of a round ends: normally, or with an Exception
\* (the loop's except clause is there for it)
RoundEntries == {"ok", "raise"}

\* a handler that lets the task end after a round that raised
AfterRoundRaisedDies == "dead"

\* health_monitor, the except clause: log, sleep, then loop
AfterRoundRaised == "sleep_after_error"

\* start_health_monitoring, called while no monitor task exists
StartHealthMonitoring ==
    /\ mon_pc = "off"
    /\ mon_pc' = "start"
    /\ lastOp' = [op |-> "start_monitoring"]
    /\ UNCHANGED <<regVars, probes, pending_responses, reqVars, now, round_ids, round_log, mon_orphans, trVars,
                   agVars, orVars, clVars>>

\* stop_health_monitoring: cancels the task, and with it the checks it gathers
StopHealthMonitoring ==
    /\ mon_pc # "off"
    /\ mon_pc' = "off"
    /\ probes' = probes \ round_ids
    /\ round_ids' = {}
    /\ round_log' = << >>
    /\ lastOp' = [op |-> "stop_monitoring"]
    /\ UNCHANGED <<regVars, pending_responses, reqVars, now, mon_orphans, trVars,
                   agVars, orVars, clVars>>

\* health_monitor enters check_all_agents_health: the checks of the registered
\* ids are created and gathered (none when the registry is empty), or the
\* round raises
RoundStart(entry) ==
    /\ mon_pc = "start"
    /\ IF entry = "raise"
       THEN /\ mon_pc' = AfterRoundRaised
            /\ round_ids' = {}
            /\ lastOp' = [op |-> "round_raised"]
       ELSE /\ mon_pc' = IF DOMAIN agents = {} THEN "sleep" ELSE "children"
            /\ round_ids' = DOMAIN agents
            /\ lastOp' = [op |-> "round_start"]
    /\ round_log' = << >>
    /\ UNCHANGED <<regVars, probes, pending_responses, reqVars, now, mon_orphans, trVars,
                   agVars, orVars, clVars>>

\* the gathered checks run up to their await, one after the other: a probe is
\* sent for each id that is registered with a health endpoint
ChildrenStart ==
    /\ mon_pc = "children"
    /\ mon_pc' = "gather"
    /\ probes' = probes \cup {a \in round_ids : HasHealthEndpoint(a)}
    /\ lastOp' = [op |-> "probes_sent"]
    /\ UNCHANGED <<regVars, pending_responses, reqVars, now, round_ids, round_log, mon_orphans, trVars,
                   agVars, orVars, clVars>>

\* one gathered check_agent_health from its response (or exception) on
RoundProbeFinish(a, outcome) ==
    /\ mon_pc = "gather"
    /\ a \in probes \cap round_ids
    /\ probes' = probes \ {a}
    /\ agent_status' = RecordHealth(agent_status, a, outcome)
    /\ round_log' = Append(round_log, [id |-> a, outcome |-> outcome])
    /\ lastOp' = [op |-> "check_health", id |-> a, outcome |-> outcome, ret |-> outcome = "200"]
    /\ UNCHANGED <<agents, m_agents, capability_index, all_capabilities,
                   pending_responses, reqVars, now, mon_pc, round_ids, mon_orphans, trVars,
                   agVars, orVars, clVars>>

\* gather returns once every check has returned; the loop goes to sleep
RoundDone ==
    /\ mon_pc = "gather"
    /\ probes \cap round_ids = {}
    /\ mon_pc' = "sleep"
    /\ lastOp' = [op |-> "round_done"]
    /\ UNCHANGED <<regVars, probes, pending_responses, reqVars, now, round_ids, round_log, mon_orphans, trVars,
                   agVars, orVars, clVars>>

\* asyncio.sleep(interval_seconds) returns, in the try block or in the except clause
Wake ==
    /\ mon_pc \in {"sleep", "sleep_after_error"}
    /\ mon_pc' = "start"
    /\ lastOp' = [op |-> "wake", from |-> mon_pc]
    /\ UNCHANGED <<regVars, probes, pending_responses, reqVars, now, round_ids, round_log, mon_orphans, trVars,
                   agVars, orVars, clVars>>

\* the most monitor tasks that later starts leave behind
MaxOrphans == 2

\* start_health_monitoring, called while a monitor task exists: a new task is
\* created and health_check_task refers to it; the task it referred to is
\* neither cancelled nor kept anywhere, and goes on with its loop
StartHealthMonitoringAgain ==
    /\ mon_pc # "off"
    /\ mon_orphans < MaxOrphans
    /\ mon_orphans' = mon_orphans + 1
    /\ mon_pc' = "start"
    /\ probes' = probes \ round_ids
    /\ round_ids' = {}
    /\ round_log' = << >>
    /\ lastOp' = [op |-> "start_monitoring", again |-> TRUE]
    /\ UNCHANGED <<regVars, pending_responses, reqVars, now, trVars, agVars, orVars, clVars>>

\* a check_agent_health of a round of a task left behind, from its response
\* (or exception) on
OrphanProbeFinish(a, outcome) ==
    /\ mon_orphans > 0
    /\ HasHealthEndpoint(a)
    /\ agent_status' = RecordHealth(agent_status, a, outcome)
    /\ lastOp' = [op |-> "check_health", id |-> a, outcome |-> outcome, ret |-> outcome = "200",
                  orphan |-> TRUE]
    /\ UNCHANGED <<agents, m_agents, capability_index, all_capabilities, probes,
                   pending_responses, reqVars, now, monVars, trVars, agVars, orVars, clVars>>

\* the steps of the monitor task itself
NextMonitorTask ==
    \/ \E entry \in RoundEntries : RoundStart(entry)
    \/ ChildrenStart
    \/ \E a \in AgentIds, outcome \in ProbeOutcomes : RoundProbeFinish(a, outcome)
    \/ RoundDone
    \/ Wake

NextMonitor ==
    \/ StartHealthMonitoring
    \/ StopHealthMonitoring
    \/ \E a \in AgentIds : Unregister(a)
    \/ NextMonitorTask

\* a registry loaded from its configuration, with the monitor started and
\* stopped at will and workers unregistered meanwhile
SpecMonitor == InitLoaded /\ [][NextMonitor]_vars

\* start_health_monitoring and stop_health_monitoring in any sequence
NextMonitorRestart ==
    \/ NextMonitor
    \/ StartHealthMonitoringAgain
    \/ \E a \in AgentIds, outcome \in ProbeOutcomes : OrphanProbeFinish(a, outcome)

SpecMonitorRestart == InitLoaded /\ [][NextMonitorRestart]_vars

\* the event loop keeps running the monitor task: a probe ends (response or
\* the 5 s timeout) and a sleep returns
SpecMonitorFair == SpecMonitor /\ WF_vars(NextMonitorTask)

-----------------------------------------------------------------------------
(* The transport: send_message and batch_send *)

\* how one attempt (the awaited client.post and the parsing of its response)
\* may end: a status below 400 whose body parses to a TaskResponse with a result
\* or with an error field, a status below 400 whose body does not parse, a 4xx
\* or 5xx status, httpx.TimeoutException, httpx.ConnectError, another
\* httpx.RequestError
AttemptOutcomes ==
    {"ok", "ok_error", "unparseable", "4xx", "5xx", "timeout", "connect_error", "request_error"}

\* the outcomes drawn for the calls of a batch
BatchOutcomes == {"ok", "ok_error", "timeout"}

Retryable == {"5xx", "timeout", "connect_error"}

\* a loop that grants one attempt too many
ShouldRetryOnceMore(outcome, attempt, mr) == outcome \in Retryable /\ attempt <= mr

\* a loop that also retries after a 4xx status and after an error response
ShouldRetryAnyFailure(outcome, attempt, mr) ==
    outcome \in Retryable \cup {"4xx", "ok_error"} /\ attempt < mr

\* send_message: the conditions under which it sleeps and continues the loop
ShouldRetry(outcome, attempt, mr) == outcome \in Retryable /\ attempt < mr

\* send_message: the TaskResponse it returns or the TransportError it raises
\* after an attempt that is not retried
SendResult(i, outcome) ==
    CASE outcome = "ok" ->
            [kind |-> "response", id |-> i, result |-> TRUE, error |-> FALSE, message |-> ""]
      [] outcome = "ok_error" ->
            [kind |-> "response", id |-> i, result |-> FALSE, error |-> TRUE,
             message |-> "application error"]
      [] outcome = "timeout" ->
            [kind |-> "TransportError", id |-> 0, result |-> FALSE, error |-> FALSE,
             message |-> "Request timeout after all retries"]
      [] outcome = "connect_error" ->
            [kind |-> "TransportError", id |-> 0, result |-> FALSE, error |-> FALSE,
             message |-> "Connection failed"]
      [] outcome = "request_error" ->
            [kind |-> "TransportError", id |-> 0, result |-> FALSE, error |-> FALSE,
             message |-> "Request failed"]
      [] outcome \in {"4xx", "5xx"} ->
            [kind |-> "TransportError", id |-> 0, result |-> FALSE, error |-> FALSE,
             message |-> "Unexpected error: HTTP"]
      [] OTHER ->
            [kind |-> "TransportError", id |-> 0, result |-> FALSE, error |-> FALSE,
             message |-> "Unexpected error"]

\* the calls that hold the semaphore or run outside a batch: an attempt is
\* awaited or the call sleeps before its next attempt
InFlight == {i \in Sends : t_pc[i] \in {"posting", "sleeping"}}

\* send_message called directly, up to the await of its first attempt
SendMessage(i) ==
    /\ batch_pc = "idle"
    /\ t_pc[i] = "new"
    /\ t_pc' = [t_pc EXCEPT ![i] = "posting"]
    /\ lastOp' = [op |-> "send_message", i |-> i]
    /\ UNCHANGED <<regVars, probes, pending_responses, reqVars, now, monVars, agVars, orVars, clVars, max_retries,
                   t_attempt, t_log, t_result, sem_value, sem_waiters, batch_pc, batch_n,
                   batch_max_concurrent, batch_results>>

\* send_message from the end of an attempt on: sleep before the next attempt,
\* return the response, or raise; in a batch, leaving the call releases the
\* semaphore
AttemptEnds(i, outcome) ==
    /\ t_pc[i] = "posting"
    /\ t_log' = [t_log EXCEPT ![i] = Append(@, outcome)]
    /\ IF ShouldRetry(outcome, t_attempt[i], max_retries)
       THEN /\ t_pc' = [t_pc EXCEPT ![i] = "sleeping"]
            /\ UNCHANGED <<t_result, sem_value>>
       ELSE /\ t_pc' = [t_pc EXCEPT ![i] =
                           IF outcome \in {"ok", "ok_error"} THEN "returned" ELSE "raised"]
            /\ t_result' = [t_result EXCEPT ![i] = SendResult(i, outcome)]
            /\ sem_value' = IF batch_pc = "gather" THEN sem_value + 1 ELSE sem_value
    /\ lastOp' = [op |-> "attempt", i |-> i, outcome |-> outcome]
    /\ UNCHANGED <<regVars, probes, pending_responses, reqVars, now, monVars, agVars, orVars, clVars, max_retries,
                   t_attempt, sem_waiters, batch_pc, batch_n, batch_max_concurrent,
                   batch_results>>

\* send_message: the sleep before a retry returns and the next attempt starts
RetryWake(i) ==
    /\ t_pc[i] = "sleeping"
    /\ t_pc' = [t_pc EXCEPT ![i] = "posting"]
    /\ t_attempt' = [t_attempt EXCEPT ![i] = @ + 1]
    /\ lastOp' = [op |-> "retry", i |-> i]
    /\ UNCHANGED <<regVars, probes, pending_responses, reqVars, now, monVars, agVars, orVars, clVars, max_retries,
                   t_log, t_result, sem_value, sem_waiters, batch_pc, batch_n,
                   batch_max_concurrent, batch_results>>

\* a batch that starts every call at once
AdmittedAll(n, mc) == 1..n

\* batch_send: the calls that get the semaphore when the gathered tasks start,
\* in the order of the requests
Admitted(n, mc) == 1..(IF n < mc THEN n ELSE mc)

\* a conversion that leaves out the requests whose send raised
BatchResultsWithoutFailures(n, res) ==
    LET kept == SelectSeq([i \in 1..n |-> res[i]], LAMBDA x : x.kind = "response") IN kept

\* batch_send: the response that stands for one gathered outcome
ToBatchResponse(x) ==
    IF x.kind = "TransportError"
    THEN [kind |-> "response", id |-> 0, result |-> FALSE, error |-> TRUE, message |-> x.message]
    ELSE x

\* batch_send: the list it returns, built from the gathered outcomes
BatchResults(n, res) == [i \in 1..n |-> ToBatchResponse(res[i])]

\* batch_send up to the await of gather, with the gathered tasks run up to
\* their first await: the semaphore or the first attempt
BatchSend(n, mc) ==
    /\ batch_pc = "idle"
    /\ \A i \in Sends : t_pc[i] = "new"
    /\ batch_pc' = "gather"
    /\ batch_n' = n
    /\ batch_max_concurrent' = mc
    /\ sem_value' = mc - Cardinality(Admitted(n, mc))
    /\ sem_waiters' = SubSeq([i \in 1..n |-> i], Cardinality(Admitted(n, mc)) + 1, n)
    /\ t_pc' = [i \in Sends |-> IF i \in Admitted(n, mc) THEN "posting"
                                ELSE IF i <= n THEN "waiting" ELSE "new"]
    /\ lastOp' = [op |-> "batch_send", n |-> n, max_concurrent |-> mc]
    /\ UNCHANGED <<regVars, probes, pending_responses, reqVars, now, monVars, agVars, orVars, clVars, max_retries,
                   t_attempt, t_log, t_result, batch_results>>

\* the first waiting call gets the semaphore that was released
SemAcquire ==
    /\ batch_pc = "gather"
    /\ sem_waiters # << >>
    /\ sem_value > 0
    /\ sem_value' = sem_value - 1
    /\ sem_waiters' = Tail(sem_waiters)
    /\ t_pc' = [t_pc EXCEPT ![Head(sem_waiters)] = "posting"]
    /\ lastOp' = [op |-> "acquire", i |-> Head(sem_waiters)]
    /\ UNCHANGED <<regVars, probes, pending_responses, reqVars, now, monVars, agVars, orVars, clVars, max_retries,
                   t_attempt, t_log, t_result, batch_pc, batch_n, batch_max_concurrent,
                   batch_results>>

\* gather returns once every call has returned or raised; batch_send converts
\* the outcomes and returns
BatchReturn ==
    /\ batch_pc = "gather"
    /\ \A i \in 1..batch_n : t_pc[i] \in {"returned", "raised"}
    /\ batch_pc' = "returned"
    /\ batch_results' = BatchResults(batch_n, t_result)
    /\ lastOp' = [op |-> "batch_returned"]
    /\ UNCHANGED <<regVars, probes, pending_responses, reqVars, now, monVars, agVars, orVars, clVars, max_retries,
                   t_pc, t_attempt, t_log, t_result, sem_value, sem_waiters, batch_n,
                   batch_max_concurrent>>

\* direct calls of send_message, one at a time
NextSend ==
    \/ SendMessage(1)
    \/ \E outcome \in AttemptOutcomes : AttemptEnds(1, outcome)
    \/ RetryWake(1)

SpecSend == InitTransport /\ [][NextSend]_vars

\* the steps the event loop takes for a batch that was started
NextBatchTasks ==
    \/ \E i \in Sends, outcome \in BatchOutcomes : AttemptEnds(i, outcome)
    \/ \E i \in Sends : RetryWake(i)
    \/ SemAcquire
    \/ BatchReturn

NextBatch ==
    \/ \E n \in 0..BatchSize, mc \in 1..MaxConcurrentLimit : BatchSend(n, mc)
    \/ NextBatchTasks

SpecBatch == InitTransport /\ [][NextBatch]_vars

\* every attempt ends (by a response or by the client's timeout), every sleep
\* returns and a released semaphore is handed on
SpecBatchFair == SpecBatch /\ WF_vars(NextBatchTasks)

-----------------------------------------------------------------------------
(* The result aggregator *)

\* the keys of the results dict, in the order in which the dict yields them
ResultOrder == <<"w1", "w2", "w3">>

Workers == {ResultOrder[i] : i \in DOMAIN ResultOrder}

\* the number of leading characters of an error message that the
\* deduplication key keeps (100 in the code, scaled to the short messages
\* below)
MessageKeyLength == 2

\* _get_severity_priority
SeverityPriority(severity) ==
    CASE severity = "critical" -> 1
      [] severity = "error" -> 2
      [] severity = "warning" -> 3
      [] severity = "info" -> 4
      [] severity = "debug" -> 5
      [] OTHER -> 4

\* _get_highest_severity
HighestSeverity(severities) ==
    LET min_priority ==
            CHOOSE p \in {SeverityPriority(severities[i]) : i \in DOMAIN severities} :
                \A i \in DOMAIN severities : p <= SeverityPriority(severities[i])
    IN CASE min_priority = 1 -> "critical"
         [] min_priority = 2 -> "error"
         [] min_priority = 3 -> "warning"
         [] min_priority = 4 -> "info"
         [] OTHER -> "debug"

\* the sort key (severity priority, line_number) of observations and errors
SortsBefore(x, y) ==
    \/ SeverityPriority(x.severity) < SeverityPriority(y.severity)
    \/ /\ SeverityPriority(x.severity) = SeverityPriority(y.severity)
       /\ x.line_number < y.line_number

\* a line_number of None
NoLine == 0 - 1

\* list.sort on that key raises TypeError when it has to order None and an
\* integer, that is when two items of equal severity priority differ in their
\* line_number and one of the two is None
SortRaises(items) ==
    \E i, j \in DOMAIN items :
        /\ SeverityPriority(items[i].severity) = SeverityPriority(items[j].severity)
        /\ items[i].line_number = NoLine
        /\ items[j].line_number # NoLine

\* list.sort on that key: stable, so x goes behind every element that does not
\* sort after it
RECURSIVE InsertSorted(_, _)
InsertSorted(sorted, x) ==
    IF sorted = << >> THEN <<x>>
    ELSE IF SortsBefore(x, Head(sorted)) THEN <<x>> \o sorted
    ELSE <<Head(sorted)>> \o InsertSorted(Tail(sorted), x)

RECURSIVE SortBySeverityAndLine(_)
SortBySeverityAndLine(items) ==
    IF items = << >> THEN << >>
    ELSE InsertSorted(SortBySeverityAndLine(SubSeq(items, 1, Len(items) - 1)), items[Len(items)])

\* a result counts when it is not None and its status is completed
Completed(result) == result.present /\ result.status = "completed"

\* aggregate_results, the extraction loop: the lists of one kind (observations,
\* errors or suggestions) of the completed results, concatenated in dict order
RECURSIVE Extract(_, _, _)
Extract(res, kind, i) ==
    IF i > Len(ResultOrder) THEN << >>
    ELSE LET w == ResultOrder[i] IN
         (IF w \in DOMAIN res /\ Completed(res[w]) THEN res[w][kind] ELSE << >>)
            \o Extract(res, kind, i + 1)

\* the grouping key of an observation: f"{type}_{line_number}"
ObservationKey(obs) == <<obs.type, obs.line_number>>

\* the observations of a list that have the key k, in list order
Group(observations, k) == SelectSeq(observations, LAMBDA o : ObservationKey(o) = k)

\* _merge_similar_observations on a group of two or more
MergeSimilarObservations(group) ==
    [type |-> group[1].type,
     line_number |-> group[1].line_number,
     messages |-> UNION {group[i].messages : i \in DOMAIN group},
     severity |-> HighestSeverity([i \in DOMAIN group |-> group[i].severity]),
     agent_id |-> group[1].agent_id,
     count |-> Len(group),
     sources |-> [i \in DOMAIN group |->
                    IF group[i].agent_id = None THEN "unknown" ELSE group[i].agent_id]]

\* _aggregate_observations, the groups in the order of their first member
RECURSIVE MergeGroups(_, _)
MergeGroups(observations, i) ==
    IF i > Len(observations) THEN << >>
    ELSE LET k == ObservationKey(observations[i])
             group == Group(observations, k)
         IN (IF \E j \in 1..(i - 1) : ObservationKey(observations[j]) = k THEN << >>
             ELSE IF Len(group) = 1 THEN <<group[1]>>
             ELSE <<MergeSimilarObservations(group)>>)
            \o MergeGroups(observations, i + 1)

\* _aggregate_observations; its except clause returns the list it was given
AggregateObservations(observations) ==
    IF SortRaises(MergeGroups(observations, 1)) THEN observations
    ELSE SortBySeverityAndLine(MergeGroups(observations, 1))

\* message[:n]
Prefix(message, n) == SubSeq(message, 1, IF Len(message) < n THEN Len(message) ELSE n)

\* a key that compares whole messages
ErrorKeyWholeMessage(error) == <<error.type, error.line_number, error.message>>

\* _aggregate_errors, the deduplication key
ErrorKey(error) == <<error.type, error.line_number, Prefix(error.message, MessageKeyLength)>>

\* _aggregate_errors, the loop that keeps the first error of each key
RECURSIVE UniqueErrors(_, _)
UniqueErrors(errors, i) ==
    IF i > Len(errors) THEN << >>
    ELSE (IF \E j \in 1..(i - 1) : ErrorKey(errors[j]) = ErrorKey(errors[i]) THEN << >>
          ELSE <<errors[i]>>)
         \o UniqueErrors(errors, i + 1)

\* _aggregate_errors; its except clause returns the list it was given
AggregateErrors(errors) ==
    IF SortRaises(UniqueErrors(errors, 1)) THEN errors
    ELSE SortBySeverityAndLine(UniqueErrors(errors, 1))

\* the order Python gives the priority strings: "high" < "low" < "medium"
PriorityRank(priority) ==
    CASE priority = "high" -> 1
      [] priority = "low" -> 2
      [] OTHER -> 3

\* list.sort(key=priority, reverse=True): stable, greatest first
RECURSIVE InsertByPriority(_, _)
InsertByPriority(sorted, x) ==
    IF sorted = << >> THEN <<x>>
    ELSE IF PriorityRank(x.priority) > PriorityRank(Head(sorted).priority) THEN <<x>> \o sorted
    ELSE <<Head(sorted)>> \o InsertByPriority(Tail(sorted), x)

RECURSIVE SortByPriority(_)
SortByPriority(items) ==
    IF items = << >> THEN << >>
    ELSE InsertByPriority(SortByPriority(SubSeq(items, 1, Len(items) - 1)), items[Len(items)])

\* group_suggestions[:3]
TopSuggestions(group) == SubSeq(group, 1, IF Len(group) < 3 THEN Len(group) ELSE 3)

\* _aggregate_suggestions, the groups by type in the order of their first member
RECURSIVE RankGroups(_, _)
RankGroups(suggestions, i) ==
    IF i > Len(suggestions) THEN << >>
    ELSE LET t == suggestions[i].type
             group == SelectSeq(suggestions, LAMBDA x : x.type = t)
         IN (IF \E j \in 1..(i - 1) : suggestions[j].type = t THEN << >>
             ELSE TopSuggestions(SortByPriority(group)))
            \o RankGroups(suggestions, i + 1)

\* _aggregate_suggestions
AggregateSuggestions(suggestions) == SortByPriority(RankGroups(suggestions, 1))

\* _generate_corrected_code: the corrected code of the first result that has one
GenerateCorrectedCode(res) ==
    LET having == {i \in DOMAIN ResultOrder :
                      /\ ResultOrder[i] \in DOMAIN res
                      /\ res[ResultOrder[i]].present
                      /\ res[ResultOrder[i]].corrected_code # None}
    IN IF having = {} THEN None
       ELSE res[ResultOrder[CHOOSE i \in having : \A j \in having : i <= j]].corrected_code

\* the items of a list whose severity is the string critical
CriticalCount(items) == Cardinality({i \in DOMAIN items : items[i].severity = "critical"})

\* a score without the floor at 0
QualityScoreUnclamped(total_issues, critical_issues) ==
    100 - (total_issues * 2) - (critical_issues * 10)

\* _calculate_summary_stats: min(100, max(0, max(0, 100 - 2*total - 10*critical)))
QualityScore(total_issues, critical_issues) ==
    LET raw == 100 - (total_issues * 2) - (critical_issues * 10)
        floored == IF raw < 0 THEN 0 ELSE raw
    IN IF floored > 100 THEN 100 ELSE floored

\* _calculate_summary_stats on the aggregated lists
CalculateSummaryStats(observations, errs, suggestions) ==
    [total_observations |-> Len(observations),
     total_errors |-> Len(errs),
     total_suggestions |-> Len(suggestions),
     critical_issues |-> CriticalCount(errs) + CriticalCount(observations),
     quality_score |-> QualityScore(Len(errs) + Len(observations),
                                    CriticalCount(errs) + CriticalCount(observations))]

\* _create_empty_result, the summary
EmptySummary ==
    [total_observations |-> 0, total_errors |-> 0, total_suggestions |-> 0,
     critical_issues |-> 0, quality_score |-> 0]

\* _create_error_result: the report returned by the except clause of
\* aggregate_results
CreateErrorResult ==
    [computed |-> TRUE, total_agents |-> 0, successful_agents |-> 0,
     observations |-> << >>,
     errors |-> <<[type |-> "aggregation_error", line_number |-> 0, severity |-> "critical",
                   message |-> <<"F">>]>>,
     suggestions |-> << >>,
     corrected_code |-> None,
     summary |-> [total_observations |-> 0, total_errors |-> 1, total_suggestions |-> 0,
                  critical_issues |-> 1, quality_score |-> 0]]

\* an aggregation that counts only the results it merges
AggregateResultsCountingCompleted(res) ==
    LET done == {w \in DOMAIN res : Completed(res[w])} IN
    [computed |-> TRUE,
     total_agents |-> Cardinality(done),
     successful_agents |-> Cardinality(done),
     observations |-> AggregateObservations(Extract(res, "observations", 1)),
     errors |-> AggregateErrors(Extract(res, "errors", 1)),
     suggestions |-> AggregateSuggestions(Extract(res, "suggestions", 1)),
     corrected_code |-> GenerateCorrectedCode(res),
     summary |-> CalculateSummaryStats(AggregateObservations(Extract(res, "observations", 1)),
                                       AggregateErrors(Extract(res, "errors", 1)),
                                       AggregateSuggestions(Extract(res, "suggestions", 1)))]

\* aggregate_results (with _create_empty_result for an empty dict); of the
\* summary the per-severity count dicts are left out
AggregateResults(res) ==
    IF DOMAIN res = {}
    THEN [computed |-> TRUE, total_agents |-> 0, successful_agents |-> 0,
          observations |-> << >>, errors |-> << >>, suggestions |-> << >>,
          corrected_code |-> None, summary |-> EmptySummary]
    ELSE IF \E w \in DOMAIN res : res[w].status = "plain dict"
    THEN CreateErrorResult
    ELSE [computed |-> TRUE,
          total_agents |-> Cardinality(DOMAIN res),
          successful_agents |-> Cardinality({w \in DOMAIN res : Completed(res[w])}),
          observations |-> AggregateObservations(Extract(res, "observations", 1)),
          errors |-> AggregateErrors(Extract(res, "errors", 1)),
          suggestions |-> AggregateSuggestions(Extract(res, "suggestions", 1)),
          corrected_code |-> GenerateCorrectedCode(res),
          summary |-> CalculateSummaryStats(
                          AggregateObservations(Extract(res, "observations", 1)),
                          AggregateErrors(Extract(res, "errors", 1)),
                          AggregateSuggestions(Extract(res, "suggestions", 1)))]

\* a results dict without the key, and a key whose value is None
Absent ==
    [present |-> FALSE, status |-> "absent", observations |-> << >>, errors |-> << >>,
     suggestions |-> << >>, corrected_code |-> None]

NoneResult == [Absent EXCEPT !.status = "none"]

\* a value that is a non-empty plain dict instead of an AnalysisResult: reading
\* its status raises AttributeError
PlainDict == [Absent EXCEPT !.present = TRUE, !.status = "plain dict"]

\* an AnalysisResult
Result(status, observations, errors, suggestions) ==
    [present |-> TRUE, status |-> status, observations |-> observations, errors |-> errors,
     suggestions |-> suggestions, corrected_code |-> None]

\* the results dict with the given value for each key, absent keys left out
Results(c1, c2, c3) ==
    LET c == <<c1, c2, c3>>
        keys == {i \in DOMAIN ResultOrder : c[i] # Absent}
    IN [w \in {ResultOrder[i] : i \in keys} |->
            c[CHOOSE i \in keys : ResultOrder[i] = w]]

Observation(type, line_number, severity, message, agent_id) ==
    [type |-> type, line_number |-> line_number, severity |-> severity,
     messages |-> {message}, agent_id |-> agent_id, count |-> 0, sources |-> << >>]

Error(type, line_number, severity, message) ==
    [type |-> type, line_number |-> line_number, severity |-> severity, message |-> message]

Suggestion(type, priority, line_number) ==
    [type |-> type, priority |-> priority, line_number |-> line_number]

\* the statuses a result may carry
Statuses == {"completed", "failed", "running"}

\* inputs that tell the workers apart: the items of worker i are on line i
CountChoices(i) ==
    {Absent, NoneResult} \cup
    {Result(st, obs, errs, sugs) :
        st \in Statuses,
        obs \in {<< >>, <<Observation("style", i, "info", "m", None)>>},
        errs \in {<< >>, <<Error("syntax", i, "error", <<"a">>)>>},
        sugs \in {<< >>, <<Suggestion("naming", "low", i)>>}}

CountInputs ==
    {Results(c1, c2, c3) : c1 \in CountChoices(1), c2 \in CountChoices(2), c3 \in CountChoices(3)}

\* inputs whose observations may share their type and line: each worker
\* completed with at most one observation, which carries the worker's id or
\* no agent_id at all
ObservationChoices(i) ==
    {Absent, Result("completed", << >>, << >>, << >>)} \cup
    {Result("completed", <<Observation("style", line, sev, ResultOrder[i], agent_id)>>, << >>, << >>) :
        line \in {1, 2}, sev \in {"info", "warning", "critical"},
        agent_id \in {None, ResultOrder[i]}}

ObservationInputs ==
    {Results(c1, c2, c3) : c1 \in ObservationChoices(1), c2 \in ObservationChoices(2),
                           c3 \in ObservationChoices(3)}

\* messages, two of which agree on their first MessageKeyLength characters
Messages == {<<"a", "b", "c">>, <<"a", "b", "d">>, <<"a", "c">>}

Errors ==
    {Error("syntax", line, sev, m) : line \in {1, 2}, sev \in {"error", "critical"}, m \in Messages}

\* inputs whose errors may repeat, within a worker and across workers
ErrorChoices(most) ==
    {Absent} \cup
    {Result("completed", << >>, errs, << >>) :
        errs \in UNION {[1..n -> Errors] : n \in 0..most}}

ErrorInputs ==
    {Results(c1, c2, c3) : c1 \in ErrorChoices(2), c2 \in ErrorChoices(1), c3 \in ErrorChoices(1)}

\* the most items of one kind that a worker delivers in the score inputs
MaxItems == 5

\* inputs that pile up issues: worker 1 delivers n errors and worker 2 and 3
\* deliver observations, all on the lines 1..n, so that worker 3's merge with
\* worker 2's
ScoreChoices(kind, agent) ==
    {Absent} \cup
    {Result("completed",
            IF kind = "observations"
            THEN [i \in 1..n |-> Observation("style", i, sev, agent, None)] ELSE << >>,
            IF kind = "errors"
            THEN [i \in 1..n |-> Error("syntax", i, sev, <<"a">>)] ELSE << >>,
            << >>) :
        n \in 0..MaxItems, sev \in {"warning", "critical"}}

ScoreInputs ==
    {Results(c1, c2, c3) : c1 \in ScoreChoices("errors", "w1"),
                           c2 \in ScoreChoices("observations", "w2"),
                           c3 \in ScoreChoices("observations", "w3")}

\* inputs that make a step fail: items whose line_number is None next to
\* items with a number, and a value that is not an AnalysisResult
FaultChoices(agent) ==
    {Absent} \cup
    {Result("completed", obs, errs, << >>) :
        obs \in {<< >>} \cup {<<Observation("style", line, sev, agent, None)>> :
                                line \in {1, NoLine}, sev \in {"info", "warning"}},
        errs \in {<< >>} \cup {<<Error("syntax", line, sev, <<"a">>)>> :
                                 line \in {1, NoLine}, sev \in {"error", "critical"}}}

FaultInputs ==
    {Results(c1, c2, c3) : c1 \in FaultChoices("w1"), c2 \in FaultChoices("w2"),
                           c3 \in {Absent, PlainDict, Result("failed", << >>, << >>, << >>)}}

InitAggregate(inputs) ==
    /\ NoAgents
    /\ NoTransport(DefaultMaxRetries)
    /\ ag_results \in inputs
    /\ ag_out = NoOutput
    /\ ag_again = NoOutput
    /\ NoOrchestration

\* aggregate_results, called once on the results dict
Aggregate ==
    /\ ag_out = NoOutput
    /\ ag_out' = AggregateResults(ag_results)
    /\ lastOp' = [op |-> "aggregate"]
    /\ UNCHANGED <<regVars, probes, pending_responses, reqVars, now, monVars, trVars, ag_results,
                   ag_again, orVars, clVars>>

\* ' | '.join(set(messages)): the orders in which the messages of a set may be
\* joined (the iteration order of a set of strings follows the hash seed of the
\* interpreter process)
JoinOrders(messages) ==
    {text \in [1..Cardinality(messages) -> messages] :
        \A i, j \in DOMAIN text : text[i] = text[j] => i = j}

\* the ways to give each observation of a list its joined message
JoinChoices(observations) ==
    {order \in [DOMAIN observations ->
                    UNION {JoinOrders(observations[i].messages) : i \in DOMAIN observations}] :
        \A i \in DOMAIN observations : order[i] \in JoinOrders(observations[i].messages)}

\* the report with the message of each observation written out
WithMessages(out, order) ==
    [out EXCEPT !.observations = [i \in DOMAIN @ |-> [@[i] EXCEPT !.messages = order[i]]]]

\* aggregate_results with the text of the merged messages, a first and a
\* second run on the same results dict
AggregateRun(second) ==
    /\ IF second THEN ag_out.computed /\ ~ag_again.computed ELSE ~ag_out.computed
    /\ LET out == AggregateResults(ag_results) IN
       \E order \in JoinChoices(out.observations) :
          IF second
          THEN ag_again' = WithMessages(out, order) /\ ag_out' = ag_out
          ELSE ag_out' = WithMessages(out, order) /\ ag_again' = ag_again
    /\ lastOp' = [op |-> "aggregate_run", second |-> second]
    /\ UNCHANGED <<regVars, probes, pending_responses, reqVars, now, monVars, trVars, ag_results,
                   orVars, clVars>>

SpecAggregateRuns ==
    InitAggregate(ObservationInputs) /\ [][\E second \in BOOLEAN : AggregateRun(second)]_vars

SpecAggregateCounts == InitAggregate(CountInputs) /\ [][Aggregate]_vars

SpecAggregateObservations == InitAggregate(ObservationInputs) /\ [][Aggregate]_vars

SpecAggregateErrors == InitAggregate(ErrorInputs) /\ [][Aggregate]_vars

SpecAggregateScore == InitAggregate(ScoreInputs) /\ [][Aggregate]_vars

SpecAggregateFaults == InitAggregate(FaultInputs) /\ [][Aggregate]_vars

-----------------------------------------------------------------------------
(* OrchestrationEngine: apply_orchestration_rules on an aggregated report *)

\* _define_result_processing_rules: the critical_errors list of each analysis
\* type
result_processing_rules ==
    [syntax_check |-> {"syntax_error", "indentation_error"},
     security_scan |-> {"sql_injection", "xss_vulnerability", "hardcoded_secret"},
     performance_analysis |-> {"memory_leak", "infinite_loop"},
     documentation_check |-> {},
     test_coverage |-> {}]

\* list(self.result_processing_rules.keys())
RulesApplied ==
    <<"syntax_check", "security_scan", "performance_analysis", "documentation_check",
      "test_coverage">>

\* the members of ExecutionStrategy
ExecutionStrategy == {"parallel", "sequential", "pipeline"}

\* the value under the key errors: the list of the aggregator, or the dict of
\* two lists that _handle_critical_errors puts in its place
ErrorList(items) == [is_dict |-> FALSE, items |-> items]

ErrorDict(critical, non_critical) ==
    [is_dict |-> TRUE, critical |-> critical, non_critical |-> non_critical]

\* the dict returned by aggregate_results as apply_orchestration_rules gets it
AsReport(out) == [Drop(out, "computed") EXCEPT !.errors = ErrorList(out.errors)]

\* a table that holds the syntax errors only
IsCriticalSyntaxOnly(error_type) == error_type \in result_processing_rules.syntax_check

\* _handle_critical_errors, the loop over the rules: the type is in the
\* critical_errors list of some analysis type
IsCritical(error_type) ==
    \E analysis_type \in DOMAIN result_processing_rules :
        error_type \in result_processing_rules[analysis_type]

\* a split that takes the keys of a dict for errors of no type
HandleCriticalErrorsOfKeys(result) ==
    LET errors == IF result.errors.is_dict
                  THEN <<[type |-> "", line_number |-> 0], [type |-> "", line_number |-> 0]>>
                  ELSE result.errors.items
        critical_errors == SelectSeq(errors, LAMBDA error : IsCritical(error.type))
        non_critical_errors == SelectSeq(errors, LAMBDA error : ~IsCritical(error.type))
    IN Put(Put(result, "errors", ErrorDict(critical_errors, non_critical_errors)),
           "critical_error_summary",
           [count |-> Len(critical_errors),
            types |-> {critical_errors[i].type : i \in DOMAIN critical_errors},
            requires_immediate_attention |-> Len(critical_errors) > 0])

\* _handle_critical_errors. Iterating a dict gives its keys, and a key is a
\* str without a .get: on a report whose errors are split already the loop
\* raises AttributeError and the except clause returns the report as it is
HandleCriticalErrors(result) ==
    IF result.errors.is_dict THEN result
    ELSE LET errors == result.errors.items
             critical_errors == SelectSeq(errors, LAMBDA error : IsCritical(error.type))
             non_critical_errors == SelectSeq(errors, LAMBDA error : ~IsCritical(error.type))
         IN Put(Put(result, "errors", ErrorDict(critical_errors, non_critical_errors)),
                "critical_error_summary",
                [count |-> Len(critical_errors),
                 types |-> {critical_errors[i].type : i \in DOMAIN critical_errors},
                 requires_immediate_attention |-> Len(critical_errors) > 0])

\* _get_error_priority
GetErrorPriority(error_type) ==
    CASE error_type \in {"syntax_error", "indentation_error"} -> 1
      [] error_type \in {"sql_injection", "xss_vulnerability", "hardcoded_secret"} -> 2
      [] error_type \in {"memory_leak", "infinite_loop"} -> 3
      [] error_type = "performance_bottleneck" -> 4
      [] error_type \in {"missing_docstring", "poor_naming"} -> 5
      [] error_type = "missing_test" -> 6
      [] OTHER -> 10

\* the sort key (error priority, line_number) of _prioritize_results
ErrorSortsBefore(x, y) ==
    \/ GetErrorPriority(x.type) < GetErrorPriority(y.type)
    \/ /\ GetErrorPriority(x.type) = GetErrorPriority(y.type)
       /\ x.line_number < y.line_number

\* list.sort on that key raises TypeError when it has to order None and an
\* integer (the lists below have at most three items, and the sort compares
\* neighbours first)
ErrorSortRaises(items) ==
    \E i, j \in DOMAIN items :
        /\ GetErrorPriority(items[i].type) = GetErrorPriority(items[j].type)
        /\ items[i].line_number = NoLine
        /\ items[j].line_number # NoLine

RECURSIVE InsertByErrorPriority(_, _)
InsertByErrorPriority(sorted, x) ==
    IF sorted = << >> THEN <<x>>
    ELSE IF ErrorSortsBefore(x, Head(sorted)) THEN <<x>> \o sorted
    ELSE <<Head(sorted)>> \o InsertByErrorPriority(Tail(sorted), x)

\* list.sort on that key: stable
RECURSIVE SortByErrorPriority(_)
SortByErrorPriority(items) ==
    IF items = << >> THEN << >>
    ELSE InsertByErrorPriority(SortByErrorPriority(SubSeq(items, 1, Len(items) - 1)),
                               items[Len(items)])

\* _prioritize_results. The suggestions carry no impact, so their key
\* (priority, "low") orders them as their priority does. A sort that raises
\* leaves the except clause to return the report as it is by then
PrioritizeResults(result) ==
    LET errors == IF result.errors.is_dict THEN result.errors
                  ELSE ErrorDict(result.errors.items, << >>)
    IN IF ErrorSortRaises(errors.critical) THEN result
       ELSE IF ErrorSortRaises(errors.non_critical)
       THEN IF result.errors.is_dict
            THEN Put(result, "errors",
                     ErrorDict(SortByErrorPriority(errors.critical), errors.non_critical))
            ELSE result
       ELSE Put(Put(result, "errors",
                    ErrorDict(SortByErrorPriority(errors.critical),
                              SortByErrorPriority(errors.non_critical))),
                "suggestions", SortByPriority(result.suggestions))

\* the items of a list whose type is one of the given
CountOfTypes(items, types) == Cardinality({i \in DOMAIN items : items[i].type \in types})

\* max(0, 100 - issues * weight)
ComponentScore(issues, weight) ==
    IF 100 - issues * weight < 0 THEN 0 ELSE 100 - issues * weight

\* the errors of either form as one list
AllErrors(errors) ==
    IF errors.is_dict THEN errors.critical \o errors.non_critical ELSE errors.items

\* _calculate_syntax_score
CalculateSyntaxScore(errors) ==
    ComponentScore(CountOfTypes(AllErrors(errors), {"syntax_error", "indentation_error"}), 20)

\* _calculate_security_score
CalculateSecurityScore(errors) ==
    ComponentScore(CountOfTypes(AllErrors(errors),
                                {"sql_injection", "xss_vulnerability", "hardcoded_secret"}), 30)

\* _calculate_performance_score
CalculatePerformanceScore(observations) ==
    ComponentScore(CountOfTypes(observations, {"performance_issue"}), 10)

\* _calculate_documentation_score
CalculateDocumentationScore(observations) ==
    ComponentScore(CountOfTypes(observations, {"missing_docstring", "poor_naming"}), 5)

\* _calculate_test_score
CalculateTestScore(observations) ==
    ComponentScore(CountOfTypes(observations, {"missing_test"}), 15)

\* round(overall_score, 2) in tenths: the mean of the five component scores
\* (each a multiple of 5, so the mean is whole), times max(0.1, 1 - 0.2 *
\* critical_issues) when there is a critical issue
OverallScore(component_sum, critical_issues) ==
    (component_sum \div 5) *
        (IF critical_issues = 0 THEN 10
         ELSE IF 10 - critical_issues * 2 < 1 THEN 1 ELSE 10 - critical_issues * 2)

\* _calculate_quality_scores; overall is in tenths
CalculateQualityScores(result) ==
    LET errors == result.errors
        observations == result.observations
        critical_issues == IF errors.is_dict THEN Len(errors.critical) ELSE 0
        total_issues == Len(AllErrors(errors)) + Len(observations)
        syntax_score == CalculateSyntaxScore(errors)
        security_score == CalculateSecurityScore(errors)
        performance_score == CalculatePerformanceScore(observations)
        documentation_score == CalculateDocumentationScore(observations)
        test_score == CalculateTestScore(observations)
    IN Put(result, "quality_scores",
           [overall |-> OverallScore(syntax_score + security_score + performance_score
                                       + documentation_score + test_score,
                                     critical_issues),
            syntax |-> syntax_score,
            security |-> security_score,
            performance |-> performance_score,
            documentation |-> documentation_score,
            test_coverage |-> test_score,
            total_issues |-> total_issues,
            critical_issues |-> critical_issues])

\* an entry of the recommendations list (its message left out)
Recommendation(type, priority, action) ==
    [type |-> type, priority |-> priority, action |-> action]

\* _generate_recommendations; a report without quality_scores reads 100 for
\* every score
GenerateRecommendations(result) ==
    LET score(k) == IF "quality_scores" \in DOMAIN result THEN result.quality_scores[k]
                    ELSE IF k = "overall" THEN 1000 ELSE 100
        when(c, r) == IF c THEN <<r>> ELSE << >>
    IN Put(result, "recommendations",
           when(score("syntax") < 80,
                Recommendation("syntax", "high", "review_and_fix_syntax_errors"))
           \o when(score("security") < 70,
                   Recommendation("security", "critical", "review_security_issues"))
           \o when(score("performance") < 60,
                   Recommendation("performance", "medium", "review_performance_suggestions"))
           \o when(score("documentation") < 50,
                   Recommendation("documentation", "low", "add_documentation"))
           \o when(score("test_coverage") < 60,
                   Recommendation("testing", "medium", "add_more_tests"))
           \o when(score("overall") < 500,
                   Recommendation("general", "high", "comprehensive_code_review")))

\* an orchestration that leaves out the stamp
ApplyOrchestrationRulesWithoutStamp(aggregated_result, analysis_id, strategy, at) ==
    GenerateRecommendations(CalculateQualityScores(
        PrioritizeResults(HandleCriticalErrors(aggregated_result))))

\* apply_orchestration_rules. Each step catches what it raises, so a report
\* that is a dict never reaches the except clause of the method itself
ApplyOrchestrationRules(aggregated_result, analysis_id, strategy, at) ==
    Put(GenerateRecommendations(CalculateQualityScores(
            PrioritizeResults(HandleCriticalErrors(aggregated_result)))),
        "orchestration",
        [analysis_id |-> analysis_id,
         execution_strategy |-> strategy,
         processed_at |-> at,
         rules_applied |-> RulesApplied])

\* the analysis ids handed in
AnalysisIds == {"analysis_1", "analysis_2"}

\* the results of a syntax, a security and a documentation worker
OrchestrationChoices(agent) ==
    CASE agent = "w1" ->
            {Result("completed", << >>, << >>, << >>),
             Result("completed", <<Observation("style", 1, "warning", "w1", None)>>, << >>, << >>)}
            \cup {Result("completed", << >>, <<Error("syntax_error", line, sev, <<"a">>)>>, << >>) :
                    line \in {1, NoLine}, sev \in {"error", "critical"}}
      [] agent = "w2" ->
            {Result("completed", << >>, << >>, << >>)}
            \cup {Result("completed", << >>, <<Error(type, 2, "critical", <<"b">>)>>, << >>) :
                    type \in {"sql_injection", "indentation_error", "style_error"}}
            \cup {Result("completed", << >>,
                         <<Error("sql_injection", 2, "critical", <<"b">>),
                           Error("xss_vulnerability", 3, "critical", <<"c">>)>>, << >>)}
      [] OTHER ->
            {Result("completed", << >>, << >>, << >>),
             Result("completed", <<Observation("missing_docstring", 3, "info", "w3", None)>>,
                    << >>, <<Suggestion("docs", "low", 3)>>),
             Result("failed", << >>, << >>, << >>)}

OrchestrationInputs ==
    {Results(c1, c2, c3) : c1 \in OrchestrationChoices("w1"),
                           c2 \in OrchestrationChoices("w2"),
                           c3 \in OrchestrationChoices("w3")}

\* set_execution_strategy
SetExecutionStrategy(strategy) ==
    /\ or_out = NotReturned
    /\ execution_strategy # strategy
    /\ execution_strategy' = strategy
    /\ lastOp' = [op |-> "set_execution_strategy"]
    /\ UNCHANGED <<regVars, probes, pending_responses, reqVars, now, monVars, trVars, agVars,
                   or_id, or_out, or_again, clVars>>

\* apply_orchestration_rules on the report aggregate_results returned, as
\* analyze_code calls it. The copy it works on is shallow, so the sort of the
\* suggestions orders the list of the report given as well
Orchestrate(analysis_id) ==
    /\ ag_out.computed
    /\ or_out = NotReturned
    /\ or_id' = analysis_id
    /\ or_out' = [returned |-> TRUE,
                  value |-> ApplyOrchestrationRules(AsReport(ag_out), analysis_id,
                                                    execution_strategy, now)]
    /\ ag_out' = [ag_out EXCEPT !.suggestions = SortByPriority(@)]
    /\ lastOp' = [op |-> "apply_orchestration_rules"]
    /\ UNCHANGED <<regVars, probes, pending_responses, reqVars, now, monVars, trVars,
                   ag_results, ag_again, execution_strategy, or_again, clVars>>

\* apply_orchestration_rules on the report a first application returned (its
\* lists are in order already, so the sorts in place leave them as they are)
OrchestrateAgain ==
    /\ or_out.returned
    /\ or_again = NotReturned
    /\ or_again' = [returned |-> TRUE,
                    value |-> ApplyOrchestrationRules(or_out.value, or_id,
                                                      execution_strategy, now)]
    /\ lastOp' = [op |-> "apply_orchestration_rules again"]
    /\ UNCHANGED <<regVars, probes, pending_responses, reqVars, now, monVars, trVars,
                   agVars, execution_strategy, or_id, or_out, clVars>>

NextOrchestration ==
    \/ Aggregate
    \/ \E strategy \in ExecutionStrategy : SetExecutionStrategy(strategy)
    \/ \E analysis_id \in AnalysisIds : Orchestrate(analysis_id)
    \/ OrchestrateAgain

SpecOrchestration == InitAggregate(OrchestrationInputs) /\ [][NextOrchestration]_vars

-----------------------------------------------------------------------------
(* ClientAgent: the response table, and CoordinatorAgent.health_check *)

\* the most calls of send_task_to_agent that get as far as create_task
MaxSent == 2

\* the most responses left in the table by earlier calls
MaxLeftover == 11

\* what send_task_request does: it returns a response with a result, with an
\* error or with neither, or it raises A2AProtocolError
SendOutcomes == {"result", "error", "empty", "raise"}

\* n earlier tasks whose response carried an error: get_task_result has marked
\* them failed and left their responses in the table
LeftoverTasks(n) == [t \in {Uuid(MaxSent + i) : i \in 1..n} |-> "failed"]

Leftover(n) == [t \in {Uuid(MaxSent + i) : i \in 1..n} |-> [response |-> "error"]]

\* the attributes __init__ gives a CoordinatorAgent (BaseAgent, ClientAgent
\* and CoordinatorAgent)
CoordinatorAttributes ==
    {"agent_id", "agent_type", "name", "logger", "status", "active_tasks", "task_history",
     "created_at", "last_activity", "registry", "protocol_handler", "pending_responses",
     "response_timeout", "task_distributor", "result_aggregator", "orchestration_engine",
     "analysis_config"}

\* the number of pending tasks above which health_check reports degraded
PendingThreshold == 10

\* health_check, the status it returns. get_registry_summary only counts, so
\* registry_health is healthy; reading an attribute the object does not have
\* raises AttributeError, which the except clause turns into unhealthy
HealthCheckStatus ==
    LET registry_health == "healthy"
        pending_tasks == Cardinality(DOMAIN pending_responses)
        overall_status == IF registry_health # "healthy" \/ pending_tasks > PendingThreshold
                          THEN "degraded" ELSE "healthy"
    IN IF "analysis_capabilities" \in CoordinatorAttributes THEN overall_status
       ELSE "unhealthy"

\* a coordinator on a registry loaded from its configuration file, after
\* earlier calls that left their responses behind
InitClient ==
    /\ \E config \in {c \in Configs : DOMAIN c \subseteq {"a1"}} :
          LET reg == LoadConfig(EmptyRegistry, config, DOMAIN config) IN
          /\ agents = reg.agents
          /\ agent_status = reg.agent_status
          /\ m_agents = reg.m_agents
          /\ capability_index = reg.capability_index
          /\ all_capabilities = reg.all_capabilities
    /\ probes = {}
    /\ \E n \in {0, MaxLeftover} :
          /\ pending_responses = Leftover(n)
          /\ own_tasks = LeftoverTasks(n)
    /\ sending = {}
    /\ cancelling = {}
    /\ NoServer
    /\ NoCoroutines
    /\ NoMonitor
    /\ NoAggregation
    /\ NoTransport(DefaultMaxRetries)
    /\ now = 0
    /\ lastOp = [op |-> "init"]

\* send_task_to_agent up to the await of send_task_request: it raises for an
\* agent the registry does not hold, and creates the task otherwise
SendTaskToAgent(target_agent_id) ==
    LET task_id == Uuid(Cardinality({t \in DOMAIN own_tasks : t[2] <= MaxSent}) + 1) IN
    /\ task_id[2] <= MaxSent
    /\ IF target_agent_id \in DOMAIN agents
       THEN /\ own_tasks' = Put(own_tasks, task_id, "pending")
            /\ sending' = sending \cup {task_id}
            /\ lastOp' = [op |-> "task_request_sent", task_id |-> task_id]
       ELSE /\ lastOp' = [op |-> "send_task_to_agent", raised |-> TRUE, task_id |-> NoTaskId]
            /\ UNCHANGED <<own_tasks, sending>>
    /\ UNCHANGED <<regVars, probes, pending_responses, reqVars, now, monVars, trVars, agVars,
                   orVars, cancelling, svVars>>

\* send_task_to_agent from the return of send_task_request (or its exception)
\* on
SendTaskReturns(task_id, outcome) ==
    /\ task_id \in sending
    /\ sending' = sending \ {task_id}
    /\ IF outcome = "raise"
       THEN /\ lastOp' = [op |-> "send_task_to_agent", raised |-> TRUE, task_id |-> task_id]
            /\ UNCHANGED <<pending_responses, own_tasks>>
       ELSE /\ pending_responses' = Put(pending_responses, task_id, [response |-> outcome])
            /\ own_tasks' = [own_tasks EXCEPT ![task_id] = "running"]
            /\ lastOp' = [op |-> "send_task_to_agent", raised |-> FALSE, task_id |-> task_id]
    /\ UNCHANGED <<regVars, probes, reqVars, now, monVars, trVars, agVars, orVars, cancelling,
                   svVars>>

\* update_task_status
UpdateTaskStatus(tasks, task_id, status) ==
    IF task_id \in DOMAIN tasks THEN [tasks EXCEPT ![task_id] = status] ELSE tasks

\* get_task_result
GetTaskResult(task_id) ==
    /\ IF task_id \notin DOMAIN pending_responses
       THEN /\ lastOp' = [op |-> "get_task_result", task_id |-> task_id, consumed |-> None,
                          returned |-> None]
            /\ UNCHANGED <<pending_responses, own_tasks>>
       ELSE LET response == pending_responses[task_id].response IN
            /\ lastOp' = [op |-> "get_task_result", task_id |-> task_id, consumed |-> response,
                          returned |-> IF response = "result" THEN "result" ELSE None]
            /\ own_tasks' = CASE response = "error" -> UpdateTaskStatus(own_tasks, task_id, "failed")
                               [] response = "result" -> UpdateTaskStatus(own_tasks, task_id, "completed")
                               [] OTHER -> own_tasks
            /\ pending_responses' = IF response = "result" THEN Drop(pending_responses, task_id)
                                    ELSE pending_responses
    /\ UNCHANGED <<regVars, probes, reqVars, now, monVars, trVars, agVars, orVars, sending,
                   cancelling, svVars>>

\* health_check
HealthCheck ==
    /\ lastOp' = [op |-> "health_check", status |-> HealthCheckStatus]
    /\ UNCHANGED <<regVars, probes, pending_responses, reqVars, now, restVars>>

TerminalStatuses == {"completed", "failed", "cancelled"}

\* BaseAgent.cancel_task
CancelTask(task_id) ==
    LET refused == task_id \notin DOMAIN own_tasks \/ own_tasks[task_id] \in TerminalStatuses IN
    /\ own_tasks' = IF refused THEN own_tasks
                    ELSE UpdateTaskStatus(own_tasks, task_id, "cancelled")
    /\ lastOp' = [op |-> "cancel_task", task_id |-> task_id, ret |-> ~refused]
    /\ UNCHANGED <<regVars, probes, pending_responses, reqVars, now, monVars, trVars, agVars,
                   orVars, sending, cancelling, svVars>>

\* cancel_remote_task up to the await of the cancel request: False at once for
\* a task without a response in the table
CancelRemoteTask(task_id) ==
    /\ task_id \notin cancelling
    /\ IF task_id \in DOMAIN pending_responses
       THEN /\ cancelling' = cancelling \cup {task_id}
            /\ lastOp' = [op |-> "cancel_request_sent", task_id |-> task_id]
       ELSE /\ cancelling' = cancelling
            /\ lastOp' = [op |-> "cancel_remote_task", task_id |-> task_id, ret |-> FALSE]
    /\ UNCHANGED <<regVars, probes, pending_responses, reqVars, now, monVars, trVars, agVars,
                   orVars, own_tasks, sending, svVars>>

\* cancel_remote_task from the answer of the worker on; the del of an entry
\* that is gone raises KeyError, which the except clause turns into False
CancelRemoteReturns(task_id, success) ==
    /\ task_id \in cancelling
    /\ cancelling' = cancelling \ {task_id}
    /\ own_tasks' = IF success THEN UpdateTaskStatus(own_tasks, task_id, "cancelled")
                    ELSE own_tasks
    /\ pending_responses' = IF success THEN Drop(pending_responses, task_id)
                            ELSE pending_responses
    /\ lastOp' = [op |-> "cancel_remote_task", task_id |-> task_id,
                  ret |-> success /\ task_id \in DOMAIN pending_responses]
    /\ UNCHANGED <<regVars, probes, reqVars, now, monVars, trVars, agVars, orVars, sending,
                   svVars>>

\* the calls on the tasks of a client; stop is cancel_remote_task for each
\* task id of the response table, one after the other
NextTerminal ==
    \/ \E a \in AgentIds : SendTaskToAgent(a)
    \/ \E t \in DOMAIN own_tasks, outcome \in SendOutcomes : SendTaskReturns(t, outcome)
    \/ \E t \in DOMAIN own_tasks : GetTaskResult(t)
    \/ \E t \in DOMAIN own_tasks : CancelTask(t)
    \/ \E t \in DOMAIN own_tasks : CancelRemoteTask(t)
    \/ \E t \in DOMAIN own_tasks, success \in BOOLEAN : CancelRemoteReturns(t, success)

\* a client that no earlier call has left responses with
InitTerminal == InitClient /\ pending_responses = EmptyMap

SpecTerminal == InitTerminal /\ [][NextTerminal]_vars

NextClient ==
    \/ \E a \in AgentIds : SendTaskToAgent(a)
    \/ \E t \in DOMAIN own_tasks, outcome \in SendOutcomes : SendTaskReturns(t, outcome)
    \/ \E t \in DOMAIN own_tasks : GetTaskResult(t)
    \/ HealthCheck

SpecClient == InitClient /\ [][NextClient]_vars

-----------------------------------------------------------------------------
(* Concurrent analyze_code calls under a clock that moves *)

\* the clock readings told apart: the microsecond of the first reading, and
\* those after it
MaxClock == 1

\* the clock moves on to the next microsecond; between two readings it may or
\* may not have done so
Tick ==
    /\ now < MaxClock
    /\ now' = now + 1
    /\ UNCHANGED <<regVars, probes, pending_responses, reqVars, restVars, lastOp>>

\* a coordinator on a registry loaded from its configuration file
InitDispatch ==
    /\ \E config \in {c \in Configs : DOMAIN c \subseteq {"a1"}} :
          LET reg == LoadConfig(EmptyRegistry, config, DOMAIN config) IN
          /\ agents = reg.agents
          /\ agent_status = reg.agent_status
          /\ m_agents = reg.m_agents
          /\ capability_index = reg.capability_index
          /\ all_capabilities = reg.all_capabilities
    /\ probes = {}
    /\ pending_responses = EmptyMap
    /\ NoRequests
    /\ NoMonitor
    /\ NoAggregation
    /\ NoTransport(DefaultMaxRetries)
    /\ now = 0
    /\ lastOp = [op |-> "init"]

\* the code both calls are given
DispatchedCode == "code_a"

\* analyze_code called while an earlier call is still under way
NextDispatch ==
    \/ Tick
    \/ \E r \in Reqs : AnalyzeStart(r, DispatchedCode)
    \/ \E r \in Reqs : DispatchFind(r)
    \/ \E r \in Reqs, outcome \in ProbeOutcomes : DispatchAfterProbe(r, outcome)
    \/ \E r \in Reqs : Collect(r)
    \/ \E r \in Reqs : Return(r)

SpecDispatch == InitDispatch /\ [][NextDispatch]_vars

-----------------------------------------------------------------------------
(* analyze_code while responses of other tasks arrive *)

\* the responses that arrive: with a result or with an error
ArrivingOutcomes == {"result", "error"}

\* analyze_code, one call at a time, and send_task_to_agent calls whose
\* responses arrive before, during or after it
NextLate ==
    \/ \E r \in SeqReqs : AnalyzeStart(r, DispatchedCode)
    \/ \E r \in SeqReqs : DispatchFind(r)
    \/ \E r \in SeqReqs, outcome \in ProbeOutcomes : DispatchAfterProbe(r, outcome)
    \/ \E r \in SeqReqs : Collect(r)
    \/ \E r \in SeqReqs : Return(r)
    \/ \E a \in AgentIds : SendTaskToAgent(a)
    \/ \E t \in DOMAIN own_tasks, outcome \in ArrivingOutcomes : SendTaskReturns(t, outcome)

SpecLate == InitDispatch /\ [][NextLate]_vars

-----------------------------------------------------------------------------
(* AgentServer: the /events stream *)

\* the heartbeat is due this many seconds after the last one
HeartbeatInterval == 30

\* asyncio.sleep(5) at the end of each round of event_generator
SleepSeconds == 5

\* the clock of the server stops here
MaxServerTime == 40

Connected(c) == sv_pc[c].at # "off"

nonServer == <<regVars, probes, pending_responses, reqVars, now, monVars, trVars, agVars,
               orVars, own_tasks, sending, cancelling>>

\* the analyze handler up to the await of agent.analyze_code: the task is
\* tracked as running
HandleAnalyze(t) ==
    /\ t \notin DOMAIN sv_tasks
    /\ sv_tasks' = Put(sv_tasks, t, [status |-> "running", sent |-> FALSE])
    /\ lastOp' = [op |-> "analyze_request", task_id |-> t]
    /\ UNCHANGED <<nonServer, sv_pc, sv_frames, sv_seen, sv_time, sv_last_heartbeat, sv_beat>>

\* the analyze handler from the return of agent.analyze_code (or its
\* exception) on
AnalyzeEnds(t, status) ==
    /\ t \in DOMAIN sv_tasks
    /\ sv_tasks[t].status = "running"
    /\ sv_tasks' = [sv_tasks EXCEPT ![t].status = status]
    /\ sv_seen' = [c \in StreamClients |-> IF Connected(c) THEN sv_seen[c] \cup {t} ELSE sv_seen[c]]
    /\ lastOp' = [op |-> "analyze_response", task_id |-> t, status |-> status]
    /\ UNCHANGED <<nonServer, sv_pc, sv_frames, sv_time, sv_last_heartbeat, sv_beat>>

\* GET /events: a new event_generator, up to its loop (the connected frame and
\* the task_count_update frames are not recorded)
Connect(c) ==
    /\ ~Connected(c)
    /\ sv_pc' = [sv_pc EXCEPT ![c] = [at |-> "loop", task |-> None]]
    /\ sv_beat' = [sv_beat EXCEPT ![c] = sv_time]
    /\ lastOp' = [op |-> "connect", client |-> c]
    /\ UNCHANGED <<nonServer, sv_tasks, sv_frames, sv_seen, sv_time, sv_last_heartbeat>>

\* the tasks for which the loop over active_tasks yields a frame: completed
\* without event_sent, or failed without error_event_sent (sent stands for the
\* flag of the status the task has)
Unannounced == {t \in DOMAIN sv_tasks : sv_tasks[t].status \in {"completed", "failed"}
                                        /\ ~sv_tasks[t].sent}

\* event_generator yields the task_completed or task_failed frame of a task:
\* the frame goes to the client of this generator, which is suspended at the
\* yield
StreamYield(c, t) ==
    /\ sv_pc[c].at = "loop"
    /\ t \in Unannounced
    /\ sv_frames' = [sv_frames EXCEPT ![c][t] = @ + 1]
    /\ sv_pc' = [sv_pc EXCEPT ![c] = [at |-> "yield", task |-> t]]
    /\ lastOp' = [op |-> "task_frame", client |-> c, task_id |-> t]
    /\ UNCHANGED <<nonServer, sv_tasks, sv_seen, sv_time, sv_last_heartbeat, sv_beat>>

\* event_generator after the loop over active_tasks: a heartbeat frame if one
\* is due by _last_heartbeat, then the sleep
StreamRoundEnd(c) ==
    /\ sv_pc[c].at = "loop"
    /\ Unannounced = {}
    /\ IF sv_time - sv_last_heartbeat >= HeartbeatInterval
       THEN /\ sv_pc' = [sv_pc EXCEPT ![c] = [at |-> "beat", task |-> None]]
            /\ sv_beat' = [sv_beat EXCEPT ![c] = sv_time]
            /\ lastOp' = [op |-> "heartbeat_frame", client |-> c]
       ELSE /\ sv_pc' = [sv_pc EXCEPT ![c] = [at |-> "sleep", task |-> None]]
            /\ sv_beat' = sv_beat
            /\ lastOp' = [op |-> "sleep", client |-> c]
    /\ UNCHANGED <<nonServer, sv_tasks, sv_frames, sv_seen, sv_time, sv_last_heartbeat>>

\* event_generator is resumed after a yield: it sets the flag of the task on
\* the shared task_info, or the shared _last_heartbeat
StreamResume(c) ==
    /\ sv_pc[c].at \in {"yield", "beat"}
    /\ IF sv_pc[c].at = "yield"
       THEN /\ sv_tasks' = [sv_tasks EXCEPT ![sv_pc[c].task].sent = TRUE]
            /\ sv_pc' = [sv_pc EXCEPT ![c] = [at |-> "loop", task |-> None]]
            /\ sv_last_heartbeat' = sv_last_heartbeat
       ELSE /\ sv_last_heartbeat' = sv_time
            /\ sv_pc' = [sv_pc EXCEPT ![c] = [at |-> "sleep", task |-> None]]
            /\ sv_tasks' = sv_tasks
    /\ lastOp' = [op |-> "resumed", client |-> c]
    /\ UNCHANGED <<nonServer, sv_frames, sv_seen, sv_time, sv_beat>>

\* the sleeps return: the generators that sleep go round again (the clients
\* read their frames at once, so no generator is left at a yield meanwhile)
ServerTick ==
    /\ sv_time < MaxServerTime
    /\ \A c \in StreamClients : sv_pc[c].at \in {"off", "sleep"}
    /\ sv_time' = sv_time + SleepSeconds
    /\ sv_pc' = [c \in StreamClients |->
                    IF sv_pc[c].at = "sleep" THEN [at |-> "loop", task |-> None] ELSE sv_pc[c]]
    /\ lastOp' = [op |-> "tick"]
    /\ UNCHANGED <<nonServer, sv_tasks, sv_frames, sv_seen, sv_last_heartbeat, sv_beat>>

NextServer ==
    \/ \E t \in ServerTasks : HandleAnalyze(t)
    \/ \E t \in ServerTasks, status \in {"completed", "failed"} : AnalyzeEnds(t, status)
    \/ \E c \in StreamClients : Connect(c)
    \/ \E c \in StreamClients, t \in ServerTasks : StreamYield(c, t)
    \/ \E c \in StreamClients : StreamRoundEnd(c)
    \/ \E c \in StreamClients : StreamResume(c)
    \/ ServerTick

SpecServer == Init /\ [][NextServer]_vars

-----------------------------------------------------------------------------
(* Claims about the registry and the capability index *)

Capabilities(a) == agents[a].capabilities

\* C1: a find_best_agent query with non-empty required capabilities returns
\* either None or a currently registered worker whose declared capabilities
\* include every required one, and None when no registered worker has them all
C1_BestAgentHasCapabilities ==
    (lastOp.op = "find_best" /\ lastOp.req # {}) =>
        /\ lastOp.ret # None =>
              /\ lastOp.ret \in DOMAIN agents
              /\ lastOp.req \subseteq Capabilities(lastOp.ret)
        /\ (\A a \in DOMAIN agents : ~(lastOp.req \subseteq Capabilities(a))) =>
              lastOp.ret = None

\* the runtime part of a worker's state
Runtime(st) ==
    [health_status |-> st.health_status, active_tasks |-> st.active_tasks,
     total_tasks |-> st.total_tasks, response_time |-> st.response_time]

\* C7: register on an id that is already registered refreshes the descriptor
\* and preserves the runtime state (health status, task counts, response time);
\* a first registration sets the defaults
C7_ReRegisterPreservesRuntime ==
    [][lastOp'.op = "register" =>
          IF lastOp'.existed
          THEN Runtime(agent_status'[lastOp'.id]) = Runtime(agent_status[lastOp'.id])
          ELSE /\ agent_status'[lastOp'.id].health_status = "unknown"
               /\ agent_status'[lastOp'.id].active_tasks = 0]_vars

\* C8: unregister of an unknown id returns false and changes nothing; otherwise
\* it returns true and the id is gone from the descriptor map, from the runtime
\* state map and from the worker set of every capability in the index
C8_UnregisterRemovesEverywhere ==
    [][lastOp'.op = "unregister" =>
          IF lastOp'.ret
          THEN /\ lastOp'.id \notin DOMAIN agents'
               /\ lastOp'.id \notin DOMAIN agent_status'
               /\ \A c \in DOMAIN capability_index' : lastOp'.id \notin capability_index'[c]
          ELSE UNCHANGED <<regVars, probes>>]_vars

\* C9: every capability name in the index, and in the set of all capabilities,
\* is held by at least one currently registered worker
C9_IndexedCapabilityIsHeld ==
    \A c \in (DOMAIN capability_index) \cup all_capabilities :
        \E a \in DOMAIN agents : c \in Capabilities(a)

\* C10: every registered worker has 0 <= active_tasks <= total_tasks, and a
\* decrement on a worker with no active task leaves it with none
C10_TaskCountsInRange ==
    /\ \A a \in DOMAIN agent_status :
          /\ 0 <= agent_status[a].active_tasks
          /\ agent_status[a].active_tasks <= agent_status[a].total_tasks
    /\ (lastOp.op = "decrement" /\ lastOp.id \in DOMAIN agent_status /\ lastOp.was = 0) =>
          agent_status[lastOp.id].active_tasks = 0

\* a decrement was just made on a registered worker that had no active task but
\* has handled tasks, while the other worker still has one active
C10_Witness ==
    /\ lastOp.op = "decrement"
    /\ lastOp.id \in DOMAIN agent_status
    /\ lastOp.was = 0
    /\ agent_status[lastOp.id].total_tasks > 0
    /\ \E b \in DOMAIN agent_status : agent_status[b].active_tasks > 0

-----------------------------------------------------------------------------
(* Claims about the distributor and analyze_code *)

\* the workers that answer every task they are sent with a completed result
\* before the deadline; the others are slow, failing or unreachable
CompletingWorkers == {"a1"}

\* C2: every dispatched task whose worker produces a completed result within
\* the deadline has that result among the results handed to the aggregation,
\* and the request returns a report whatever the other workers do
C2_CompletedResultsAggregated ==
    \A r \in Reqs : pc[r] = "done" =>
        /\ report[r].returned
        /\ \A t \in DOMAIN distributed[r] :
              assigned[r][t] \in CompletingWorkers => distributed[r][t] \in DOMAIN results[r]

\* C3: once every task dispatched by analyze_code has finished (the request has
\* returned and none is in flight), every increment of active_tasks has been
\* matched by a decrement: each worker is back at the count it had before
C3_ActiveTasksReleased ==
    (\A r \in Reqs : pc[r] \in {"idle", "done"}) =>
        \A a \in DOMAIN agent_status : agent_status[a].active_tasks = 0

NothingDispatched(r) ==
    /\ DOMAIN single_ret[r] = AnalysisTypes
    /\ \A t \in AnalysisTypes : single_ret[r][t] = NoTaskId

C5_DistributedIsExactlySucceeded ==
    \A r \in Reqs :
        /\ DOMAIN distributed[r] = {t \in DOMAIN single_ret[r] : single_ret[r][t] # NoTaskId}
        /\ \A t \in DOMAIN distributed[r] : distributed[r][t] = single_ret[r][t]
        /\ pc[r] \in {"collect", "done"} => DOMAIN single_ret[r] = AnalysisTypes

\* distribute returned a map that lacks the first entry (no dispatch for it)
\* and holds the last one, whose dispatch came after failures, one of them a
\* probe that raised
C5_Witness ==
    \E r \in Reqs :
        /\ pc[r] = "collect"
        /\ "syntax_check" \notin DOMAIN distributed[r]
        /\ "documentation_check" \notin DOMAIN distributed[r]
        /\ "test_coverage" \in DOMAIN distributed[r]
        /\ \E a \in DOMAIN agent_status :
              agent_status[a].health_status = "unhealthy" /\ agent_status[a].response_time = None

\* C6: a single dispatch returns a task id exactly when find_best_agent returned
\* a worker, the probe of that worker made by this dispatch returned 200 and the
\* worker's active_tasks was below its maximum of 5; the task is then counted on
\* that worker and on no other
C6_DispatchOnlyWhenHealthyAndBelowCapacity ==
    lastOp.op = "dispatch" =>
        /\ lastOp.ret # NoTaskId <=>
              /\ lastOp.best # None
              /\ lastOp.probe = "200"
              /\ lastOp.active < DefaultMaxConcurrentTasks
        /\ lastOp.ret # NoTaskId =>
              /\ assigned[lastOp.r][lastOp.analysis_type] = lastOp.best
              /\ lastOp.best \in DOMAIN agent_status =>
                    /\ agent_status[lastOp.best].active_tasks = lastOp.active + 1
                    /\ agent_status[lastOp.best].active_tasks <= DefaultMaxConcurrentTasks
        /\ lastOp.ret = NoTaskId => lastOp.analysis_type \notin DOMAIN distributed[lastOp.r]

\* a dispatch failed on a healthy worker with 5 active tasks that is the only
\* worker with the required capabilities
C6_Witness ==
    /\ lastOp.op = "dispatch"
    /\ lastOp.ret = NoTaskId
    /\ lastOp.probe = "200"
    /\ lastOp.active = DefaultMaxConcurrentTasks
    /\ FindAgentsByCapabilities(lastOp.req) = {lastOp.best}
    /\ agent_status[lastOp.best].active_tasks = DefaultMaxConcurrentTasks

-----------------------------------------------------------------------------
(* Claims about health checking *)

\* C11: check_agent_health on a registered worker returns (it never raises) and
\* leaves the outcome in the worker's runtime state: health_status is healthy
\* iff the probe returned 200 and unhealthy otherwise (response_time None after
\* an exception), last_health_check is set, and the boolean returned equals
\* (health_status = healthy)
C11_CheckHealthRecordsOutcome ==
    (lastOp.op = "check_health" /\ lastOp.id \in DOMAIN agent_status) =>
        /\ agent_status[lastOp.id].health_status =
              IF lastOp.outcome = "200" THEN "healthy" ELSE "unhealthy"
        /\ lastOp.outcome = "exception" => agent_status[lastOp.id].response_time = None
        /\ agent_status[lastOp.id].last_health_check = "set"
        /\ lastOp.ret = (agent_status[lastOp.id].health_status = "healthy")

\* C12: in a round of check_all_agents_health, whatever the order in which the
\* probes complete, every worker whose probe returned 200 is recorded healthy
\* and every worker whose probe failed or raised is recorded unhealthy; when the
\* round ends every probed worker has its own result, so no failure prevented
\* or altered the result of another worker
C12_RoundRecordsEachWorker ==
    /\ \A i \in DOMAIN round_log :
          round_log[i].id \in DOMAIN agent_status =>
              agent_status[round_log[i].id].health_status =
                  IF round_log[i].outcome = "200" THEN "healthy" ELSE "unhealthy"
    /\ \A i, j \in DOMAIN round_log : round_log[i].id = round_log[j].id => i = j
    /\ lastOp.op = "round_done" =>
          \A a \in round_ids : HasHealthEndpoint(a) => \E i \in DOMAIN round_log : round_log[i].id = a

\* a round ended in which the first probe to complete raised and the second
\* returned 200
C12_Witness ==
    /\ lastOp.op = "round_done"
    /\ Len(round_log) = 2
    /\ round_log[1].outcome = "exception"
    /\ round_log[2].outcome = "200"
    /\ round_log[1].id \in DOMAIN agent_status
    /\ round_log[2].id \in DOMAIN agent_status
    /\ agent_status[round_log[2].id].health_status = "healthy"

\* C13: while the monitor task exists it starts a round again and again: after
\* any round, also one that raised, it sleeps and then starts the next one
C13_MonitorKeepsRunning ==
    (mon_pc # "off") ~> (lastOp.op \in {"round_start", "round_raised"} \/ mon_pc = "off")

\* the loop is back at its top after the sleep that follows a round that raised
C13_Witness ==
    /\ mon_pc = "start"
    /\ lastOp.op = "wake"
    /\ lastOp.from = "sleep_after_error"

-----------------------------------------------------------------------------
(* Claims about the transport *)

Last(q) == q[Len(q)]

\* C14: send_message makes at most max_retries + 1 attempts; every attempt but
\* the last ended with a connection failure, a timeout or a 5xx status; it
\* returns the parsed response of the first attempt that got a status below
\* 400, and it raises a TransportError when the last permitted attempt failed
C14_BoundedRetries ==
    \A i \in Sends :
        /\ Len(t_log[i]) <= max_retries + 1
        /\ t_attempt[i] <= max_retries
        /\ \A k \in 1..(Len(t_log[i]) - 1) : t_log[i][k] \in Retryable
        /\ t_pc[i] = "returned" <=> (t_log[i] # << >> /\ Last(t_log[i]) \in {"ok", "ok_error"})
        /\ t_pc[i] = "returned" =>
              t_result[i].kind = "response" /\ t_result[i].id = i
        /\ t_pc[i] = "raised" => t_result[i].kind = "TransportError"
        /\ (Len(t_log[i]) = max_retries + 1 /\ Last(t_log[i]) \notin {"ok", "ok_error"}) =>
              t_pc[i] = "raised"

\* with the default of 3 retries a call raised after 4 attempts that ended with
\* a timeout, a connection failure and two 5xx responses
C14_Witness ==
    /\ max_retries = DefaultMaxRetries
    /\ t_pc[1] = "raised"
    /\ t_log[1] = <<"timeout", "connect_error", "5xx", "5xx">>
    /\ t_result[1].kind = "TransportError"

\* C15: an attempt that got a 4xx status is the last one and the call raises;
\* an attempt whose response parses and carries an error field is the last one
\* and that response is returned as it is
C15_NoRetryOnClientOrApplicationError ==
    \A i \in Sends : \A k \in DOMAIN t_log[i] :
        /\ t_log[i][k] = "4xx" =>
              /\ k = Len(t_log[i])
              /\ t_pc[i] = "raised"
              /\ t_result[i].kind = "TransportError"
        /\ t_log[i][k] = "ok_error" =>
              /\ k = Len(t_log[i])
              /\ t_pc[i] = "returned"
              /\ t_result[i] = [kind |-> "response", id |-> i, result |-> FALSE,
                                error |-> TRUE, message |-> "application error"]

\* with retries left, a call raised after a single attempt that got a 4xx status
C15_Witness ==
    /\ max_retries = DefaultMaxRetries
    /\ t_log[1] = <<"4xx">>
    /\ t_pc[1] = "raised"

\* C16: batch_send returns one response per request, in the order of the
\* requests: the response of a call that returned stands unchanged at the
\* position of its request, and a call that raised is represented at its
\* position by a response with the error set and no result
C16_BatchAllSettle ==
    batch_pc = "returned" =>
        /\ Len(batch_results) = batch_n
        /\ \A i \in 1..batch_n :
              /\ t_pc[i] = "returned" =>
                    batch_results[i] = t_result[i] /\ batch_results[i].id = i
              /\ t_pc[i] = "raised" =>
                    /\ batch_results[i].kind = "response"
                    /\ batch_results[i].error
                    /\ ~batch_results[i].result
                    /\ batch_results[i].message = t_result[i].message

\* a batch of three returned: the second call raised after the others had
\* been answered, one with a result and one with an error response
C16_Witness ==
    /\ batch_pc = "returned"
    /\ batch_n = 3
    /\ t_pc[2] = "raised"
    /\ Len(t_log[2]) > 1
    /\ batch_results[1].result
    /\ batch_results[2].error /\ batch_results[2].id = 0
    /\ batch_results[3] = t_result[3] /\ batch_results[3].error

\* C17: during batch_send the calls in flight (an attempt awaited, or asleep
\* between two attempts) never number more than max_concurrent, and every
\* request of the batch is sent in the end
C17_BoundedConcurrency ==
    /\ [](batch_pc = "gather" => Cardinality(InFlight) <= batch_max_concurrent)
    /\ (batch_pc = "gather") ~> (\A i \in 1..batch_n : t_log[i] # << >>)

\* a call waits for the semaphore while max_concurrent calls hold it, one of
\* them asleep before a retry
C17_Witness ==
    /\ batch_pc = "gather"
    /\ \E i \in 1..batch_n : t_pc[i] = "waiting"
    /\ Cardinality(InFlight) = batch_max_concurrent
    /\ \E j \in InFlight : t_pc[j] = "sleeping"

-----------------------------------------------------------------------------
(* Claims about the result aggregator *)

\* the workers whose entry has the status completed
CompletedWorkers == {w \in DOMAIN ag_results : ag_results[w].present /\ ag_results[w].status = "completed"}

\* the positions of the completed workers that delivered items of a kind
Contributors(kind) ==
    {i \in DOMAIN ResultOrder : ResultOrder[i] \in CompletedWorkers /\ ag_results[ResultOrder[i]][kind] # << >>}

LinesOf(items) == {items[i].line_number : i \in DOMAIN items}

ObservationSources(k) ==
    {w \in CompletedWorkers :
        \E i \in DOMAIN ag_results[w].observations :
            <<ag_results[w].observations[i].type, ag_results[w].observations[i].line_number>> = k}

\* C19: when k >= 2 workers deliver an observation with the same (type,
\* line_number), the output holds exactly one observation for that key, with
\* count = k, with the most severe of the members' severities, and with a
\* sources list that holds the id of every one of these workers
C19_MergedObservation ==
    ag_out.computed =>
        \A key \in {"style"} \X {1, 2} :
            Cardinality(ObservationSources(key)) >= 2 =>
                LET hits == {i \in DOMAIN ag_out.observations :
                                <<ag_out.observations[i].type, ag_out.observations[i].line_number>> = key}
                IN /\ Cardinality(hits) = 1
                   /\ \A i \in hits :
                         /\ ag_out.observations[i].count = Cardinality(ObservationSources(key))
                         /\ \A w \in ObservationSources(key) :
                               /\ SeverityPriority(ag_out.observations[i].severity) <=
                                     SeverityPriority(ag_results[w].observations[1].severity)
                               /\ \E n \in DOMAIN ag_out.observations[i].sources :
                                     ag_out.observations[i].sources[n] = w

\* the key the claim names: type, line number, first characters of the message
DedupKey(e) ==
    <<e.type, e.line_number,
      SubSeq(e.message, 1, IF Len(e.message) < MessageKeyLength THEN Len(e.message)
                           ELSE MessageKeyLength)>>

C21_QualityScore ==
    (ag_out.computed /\ DOMAIN ag_results # {}) =>
        LET issues == Len(ag_out.errors) + Len(ag_out.observations)
            critical ==
                Cardinality({i \in DOMAIN ag_out.errors : ag_out.errors[i].severity = "critical"})
                + Cardinality({i \in DOMAIN ag_out.observations :
                                  ag_out.observations[i].severity = "critical"})
            raw == 100 - 2 * issues - 10 * critical
        IN /\ ag_out.summary.quality_score \in 0..100
           /\ raw \in 0..100 => ag_out.summary.quality_score = raw
           /\ raw < 0 => ag_out.summary.quality_score = 0
           /\ ag_out.summary.critical_issues = critical
           /\ critical = 0 =>
                 ag_out.summary.quality_score = IF 100 - 2 * issues < 0 THEN 0 ELSE 100 - 2 * issues

\* five critical errors and five observations merged to critical ones push
\* the score to its floor
C21_Witness ==
    /\ ag_out.computed
    /\ Len(ag_out.errors) = 5
    /\ Len(ag_out.observations) = 5
    /\ ag_out.summary.critical_issues = 10
    /\ ag_out.summary.quality_score = 0
    /\ \E i \in DOMAIN ag_out.observations : ag_out.observations[i].count = 2

\* C22: a fault in any step of the aggregation, the merging of the observations
\* and of the errors included, does not reach the caller, and the report
\* returned is the synthetic one whose errors list is exactly one critical
\* aggregation error
C22_FaultYieldsSyntheticReport ==
    LET faulty ==
            \/ \E w \in DOMAIN ag_results : ag_results[w] = PlainDict
            \/ SortRaises(MergeGroups(Extract(ag_results, "observations", 1), 1))
            \/ SortRaises(UniqueErrors(Extract(ag_results, "errors", 1), 1))
    IN (ag_out.computed /\ faulty) =>
          /\ Len(ag_out.errors) = 1
          /\ ag_out.errors[1].type = "aggregation_error"
          /\ ag_out.errors[1].severity = "critical"

-----------------------------------------------------------------------------
(* Claims about the orchestration engine *)

\* a sort of _prioritize_results raises on the report
PrioritizeRaises(result) ==
    LET errors == IF result.errors.is_dict THEN result.errors
                  ELSE ErrorDict(result.errors.items, << >>)
    IN ErrorSortRaises(errors.critical) \/ ErrorSortRaises(errors.non_critical)

\* C23: apply_orchestration_rules always returns, and whenever one of its
\* steps raises (here a sort of _prioritize_results) what it returns is the
\* report it was given, unmodified
C23_FaultReturnsInput ==
    (or_out.returned /\ PrioritizeRaises(HandleCriticalErrors(AsReport(ag_out))))
        => or_out.value = AsReport(ag_out)

\* the type strings of the critical tables of all analysis types
CriticalTypes ==
    {"syntax_error", "indentation_error", "sql_injection", "xss_vulnerability",
     "hardcoded_secret", "memory_leak", "infinite_loop"}

\* the number of times x occurs in a list
Occurrences(items, x) == Cardinality({i \in DOMAIN items : items[i] = x})

\* C24: the split of the errors is a partition (every error of the report
\* given is in exactly one of critical and non_critical, as often as it was
\* in the report), an error is in critical iff its type is in the critical
\* table of some analysis type, and critical_error_summary has the count of
\* the critical errors, their distinct types, and requires_immediate_attention
\* iff the count is positive
C24_CriticalSplitIsPartition ==
    or_out.returned =>
        LET given == ag_out.errors
            split == or_out.value.errors
            summary == or_out.value.critical_error_summary
        IN /\ split.is_dict
           /\ Len(split.critical) + Len(split.non_critical) = Len(given)
           /\ \A i \in DOMAIN given :
                  /\ Occurrences(split.critical, given[i])
                        + Occurrences(split.non_critical, given[i]) = Occurrences(given, given[i])
                  /\ Occurrences(split.critical, given[i]) > 0
                        <=> given[i].type \in CriticalTypes
                  /\ Occurrences(split.non_critical, given[i]) > 0
                        <=> given[i].type \notin CriticalTypes
           /\ summary.count = Len(split.critical)
           /\ summary.types = {split.critical[i].type : i \in DOMAIN split.critical}
           /\ summary.requires_immediate_attention <=> summary.count > 0

C24_Witness ==
    /\ or_out.returned
    /\ Len(or_out.value.errors.critical) = 1
    /\ Len(or_out.value.errors.non_critical) = 1
    /\ or_out.value.errors.critical[1].type = "syntax_error"
    /\ or_out.value.errors.non_critical[1].severity = "critical"

\* C25: on a report without errors and observations a second application
\* gives the quality_scores of the first and an empty recommendations list
C25_IdempotentOnCleanReport ==
    (or_again.returned /\ ag_out.errors = << >> /\ ag_out.observations = << >>) =>
        /\ or_again.value.quality_scores = or_out.value.quality_scores
        /\ or_again.value.recommendations = << >>
        /\ or_out.value.recommendations = << >>

C25_Witness ==
    /\ or_again.returned
    /\ ag_out.errors = << >>
    /\ ag_out.observations = << >>
    /\ ag_out.total_agents = 3
    /\ or_again.value.quality_scores.overall = 1000

\* the three workers of the scenario: a syntax worker with one warning, a
\* security worker with one critical sql_injection, a documentation worker
\* with nothing to report
Scenario ==
    Results(Result("completed", <<Observation("style", 1, "warning", "w1", None)>>, << >>, << >>),
            Result("completed", << >>, <<Error("sql_injection", 2, "critical", <<"b">>)>>, << >>),
            Result("completed", << >>, << >>, << >>))

\* C26: aggregating and then orchestrating the results of the scenario gives
\* a summary with critical_issues = 1, a recommendation of type security and
\* priority critical, and an overall quality score below 100
C26_ScenarioRecommendsSecurity ==
    (or_out.returned /\ ag_results = Scenario) =>
        /\ or_out.value.summary.critical_issues = 1
        /\ \E i \in DOMAIN or_out.value.recommendations :
              /\ or_out.value.recommendations[i].type = "security"
              /\ or_out.value.recommendations[i].priority = "critical"
        /\ or_out.value.quality_scores.overall < 1000

\* C27: the report returned for an aggregated report has quality_scores,
\* recommendations and an orchestration stamp with the analysis_id passed in,
\* the execution strategy, the time of processing and the rules applied
C27_ReportIsStamped ==
    or_out.returned =>
        /\ {"quality_scores", "recommendations", "orchestration"} \subseteq DOMAIN or_out.value
        /\ or_out.value.orchestration.analysis_id = or_id
        /\ or_id \in AnalysisIds
        /\ or_out.value.orchestration.execution_strategy = execution_strategy
        /\ or_out.value.orchestration.processed_at = now
        /\ or_out.value.orchestration.rules_applied = RulesApplied

C27_Witness ==
    /\ or_out.returned
    /\ or_out.value.orchestration.analysis_id = "analysis_2"
    /\ or_out.value.orchestration.execution_strategy = "pipeline"
    /\ or_out.value.total_agents = 3

-----------------------------------------------------------------------------
(* Claims about the client's response table and the coordinator's health *)

\* C28: health_check returns healthy or degraded, and degraded iff the
\* registry summary cannot be obtained (it always can) or more than 10 tasks
\* are pending
C28_VerdictHealthyOrDegraded ==
    lastOp.op = "health_check" =>
        /\ lastOp.status \in {"healthy", "degraded"}
        /\ lastOp.status = "degraded" <=> Cardinality(DOMAIN pending_responses) > 10

\* C29: once get_task_result has consumed the response of a task, with a
\* result or with an error, the task is no longer in the response table
C29_ConsumedResponseDiscarded ==
    (lastOp.op = "get_task_result" /\ lastOp.consumed \in {"result", "error"})
        => lastOp.task_id \notin DOMAIN pending_responses

\* C30: any two successful dispatches return different task ids: two entries
\* of one distribute call, and the entries of two analyze_code calls under
\* way at the same time
C30_TaskIdsDiffer ==
    \A r1, r2 \in Reqs :
        \A t1 \in DOMAIN distributed[r1], t2 \in DOMAIN distributed[r2] :
            (<<r1, t1>> # <<r2, t2>>) => distributed[r1][t1] # distributed[r2][t2]

-----------------------------------------------------------------------------
(* Claims about late results, the order of dispatches and the status bonus *)

C32_EntriesDispatchedConcurrently ==
    (lastOp.op = "dispatch" /\ lastOp.probe # None) =>
        \/ pc[lastOp.r] # "dist"
        \/ idx[lastOp.r] > Len(analysis_config)


\* C33 (as the specification states it): of two candidates that differ in nothing
\* but their status, find_best_agent never returns the one whose current status
\* earns the smaller bonus
C33_ChoiceFollowsUpdatedStatus ==
    (lastOp.op = "find_best" /\ lastOp.ret # None /\ lastOp.ret \in DOMAIN agent_status) =>
        \A b \in FindAgentsByCapabilities(lastOp.req) \cap DOMAIN agent_status :
            (/\ m_agents[b].capabilities = m_agents[lastOp.ret].capabilities
             /\ m_agents[b].parameters = m_agents[lastOp.ret].parameters)
            => StatusBonus(agent_status[lastOp.ret].status) >= StatusBonus(agent_status[b].status)


\* C34 (as the specification states it): two runs of aggregate_results on the
\* same results dict return the same report, the text of every merged
\* observation message included
C34_AggregationDeterministic ==
    (ag_out.computed /\ ag_again.computed) => ag_out = ag_again


-----------------------------------------------------------------------------
(* Claims about the id sets of the registry and the task counts *)

\* C35: the descriptor map, the runtime-state map and the worker map of the
\* capability matcher hold the same set of ids in every reachable state
C35_SameIds ==
    /\ DOMAIN agents = DOMAIN agent_status
    /\ DOMAIN agents = DOMAIN m_agents

\* a probe completes after its worker was unregistered
C35_Witness ==
    /\ lastOp.op = "check_health"
    /\ lastOp.outcome # None
    /\ lastOp.id \notin DOMAIN agents
    /\ DOMAIN agents # {}


\* C36: with analyze_code calls running concurrently, no dispatch raises the
\* active_tasks of a worker above its maximum of concurrent tasks; the capacity
\* check and the increment happen in one uninterrupted step
C36_NeverAboveCapacity ==
    /\ [](\A a \in DOMAIN agent_status : agent_status[a].active_tasks <= MaxConcurrent(a))
    /\ [][\A a \in DOMAIN agent_status :
            (a \in DOMAIN agent_status' /\ agent_status'[a].active_tasks > agent_status[a].active_tasks)
            => /\ agent_status[a].active_tasks < MaxConcurrent(a)
               /\ agent_status'[a].active_tasks = agent_status[a].active_tasks + 1]_vars

\* two calls are in their distribution, the worker is full and a dispatch of
\* one of them is refused after a healthy probe
C36_Witness ==
    /\ \A r \in Reqs : pc[r] \in {"dist", "probe"}
    /\ lastOp.op = "dispatch" /\ lastOp.probe = "200" /\ lastOp.ret = NoTaskId
    /\ lastOp.active = DefaultMaxConcurrentTasks
    /\ \E a \in DOMAIN agent_status : agent_status[a].active_tasks = DefaultMaxConcurrentTasks
    /\ \A r \in Reqs : DOMAIN assigned[r] # {}


\* C37 (as the specification states it): a dispatch that returns a task id
\* increments active_tasks and total_tasks of its worker once, and the worker is
\* registered at that moment; a dispatch that returns none leaves the counts as
\* they were
C37_TaskIdCountedOnce ==
    [][\A r \in Reqs :
          (pc[r] = "probe" /\ pc'[r] # "probe") =>
              LET b == best[r]
                  analysis_type == analysis_config[idx[r]].analysis_type
              IN IF single_ret'[r][analysis_type] # NoTaskId
                 THEN /\ b \in DOMAIN agents /\ b \in DOMAIN agent_status
                      /\ agent_status'[b].active_tasks = agent_status[b].active_tasks + 1
                      /\ agent_status'[b].total_tasks = agent_status[b].total_tasks + 1
                 ELSE \A a \in DOMAIN agent_status :
                          /\ agent_status'[a].active_tasks = agent_status[a].active_tasks
                          /\ agent_status'[a].total_tasks = agent_status[a].total_tasks]_vars


-----------------------------------------------------------------------------
(* Claims about stopping the monitor, terminal tasks and the event stream *)

\* C38 (as the specification states it): once stop_health_monitoring has
\* returned, no health_monitor task that this registry started is left running
C38_StopStopsEveryMonitor ==
    mon_pc = "off" => mon_orphans = 0


\* C39 (as the specification states it): a task of the client that has reached
\* a terminal status keeps it whatever get_task_result, cancel_task,
\* cancel_remote_task or stop do afterwards
C39_TerminalStatusFinal ==
    [][lastOp'.op \in {"get_task_result", "cancel_task", "cancel_remote_task"} =>
          \A t \in DOMAIN own_tasks :
              own_tasks[t] \in TerminalStatuses => own_tasks'[t] = own_tasks[t]]_vars


\* C40 (as the specification states it): every client of the /events stream
\* has received exactly one frame for each task that ended while it was
\* connected, once the frame of the task is marked as sent, and no connected
\* client is left without a heartbeat for longer than the interval and one
\* round of the loop
C40_EachClientServed ==
    \A c \in StreamClients :
        /\ \A t \in sv_seen[c] : sv_tasks[t].sent => sv_frames[c][t] = 1
        /\ Connected(c) => sv_time - sv_beat[c] <= HeartbeatInterval + SleepSeconds

====
